---- MODULE Spec2Model ----
(***************************************************************************)
(* Handle lifetime and error propagation of the realsense-rust wrappers    *)
(* (Device, Sensor, ImageFrame, PointsFrame and the legacy DepthFrame)     *)
(* over the librealsense2 C API.                                           *)
(*                                                                         *)
(* The native library is the environment.  Every native call is recorded   *)
(* as an event of the trace of the operation that issued it; what the      *)
(* native library answers to the calls of one operation is an input of     *)
(* that operation.  The layer is synchronous: an operation is one step.    *)
(***************************************************************************)
EXTENDS Integers, Sequences, FiniteSets, TLC

\* ------------------------------------------------------------------ bounds
\* native handles (device, sensor, frame, frame sensor) allocated in a run
MaxHandles == 3
\* longest sensor list / stream profile list the native library reports
MaxLen == 2
\* largest width and height the native library reports
MaxDim == 2
\* largest data size in bytes the native library reports
MaxSize == 4
\* largest option value
MaxValue == 1
\* number of option keys
MaxOpt == 1
\* number of tags in the allowlist of sensor extensions
MaxExt == 2

\* native error objects and ErrorChecker objects created in a run
MaxErr == 2

\* ------------------------------------------------------- program constants
\* frame/prelude.rs, used at image.rs:236
BITS_PER_BYTE == 8

VARIABLES
    build,        \* "debug" | "release": whether debug assertions are compiled
    nextHandle,   \* number of native handles allocated so far
    kindOf,       \* handle -> "none" | "device" | "sensor" | "frame" | "frame_sensor"
    released,     \* handle -> number of native release calls this layer made
    devices,      \* live Device wrappers
    sensors,      \* live Sensor wrappers
    frames,       \* live frame wrappers
    raw,          \* bare frame handles the caller is responsible for
    options,      \* native option table of the physical sensor
    borrowedFrom, \* sensor handle -> the frame handle it was obtained from (0: none)
    iters,        \* live pixel iterators of image frames
    checkers,     \* live ErrorChecker objects
    errors,       \* native error objects: live Error wrappers, free calls
    last          \* the last operation: its native calls and its result

vars == <<build, nextHandle, kindOf, released, devices, sensors, frames,
          raw, options, borrowedFrom, iters, checkers, errors, last>>

Handles == 1..MaxHandles

\* ------------------------------------------------------------ native events
\* a native call on handle h; err: the call filled the error out-parameter.
\* h = 0 is the list handle an operation works on.
\* arg: index or key passed; ret: handle returned (0: none).
EvA(call, h, arg, err, ret) ==
    [call |-> call, h |-> h, arg |-> arg, err |-> err, ret |-> ret, of |-> 0]

Ev(call, h, err) == EvA(call, h, 0, err, 0)

\* rs2_free_error on the error object filled by the i-th call of the trace
FreeError(i) ==
    [call |-> "rs2_free_error", h |-> 0, arg |-> 0, err |-> FALSE, ret |-> 0,
     of |-> i]

ReleaseCalls == {"rs2_delete_device", "rs2_delete_sensor", "rs2_release_frame"}

\* the release counters after the native calls of trace tr
RECURSIVE ReleasedAfter(_, _)
ReleasedAfter(rel, tr) ==
    IF tr = <<>> THEN rel
    ELSE LET e == Head(tr)
             r == IF e.call \in ReleaseCalls
                  THEN [rel EXCEPT ![e.h] = @ + 1] ELSE rel
         IN ReleasedAfter(r, Tail(tr))

\* the record of an operation
\* (nat: what the native library answered, where the operation has inputs)
\* msg: the message a failure carries: i > 0 is the message of the error
\* object that the i-th native call of the trace filled
NoMessage == 0
OpM(name, self, nat, tr, result, out, msg) ==
    [op |-> name, self |-> self, nat |-> nat, trace |-> tr,
     result |-> result, out |-> out, msg |-> msg]

OpN(name, self, nat, tr, result, out) ==
    OpM(name, self, nat, tr, result, out, NoMessage)

Op(name, self, tr, result, out) == OpN(name, self, <<>>, tr, result, out)

\* check_rs2_error!(err, ctor): when the error slot is filled, build the
\* failure from the error object and release the error object
check_rs2_error(tr) ==
    IF tr[Len(tr)].err THEN Append(tr, FreeError(Len(tr))) ELSE tr

\* the inline form of the advisory queries and of the enumerations:
\* if err.as_ref().is_some() { rs2_free_error(err); ... }
free_if_err(tr) ==
    IF tr[Len(tr)].err THEN Append(tr, FreeError(Len(tr))) ELSE tr

\* ------------------------------------------------------------------ Device
\* impl Drop for Device
Device_drop_mut_none(d) == <<>>
Device_drop(d) == <<Ev("rs2_delete_device", d.device_ptr, FALSE)>>

\* impl From<NonNull<rs2_device>> for Device
Device_from(device_ptr) == [device_ptr |-> device_ptr]

\* Device::try_create(device_list, index); natErr: rs2_create_device fails
Device_try_create(natErr) ==
    LET p  == nextHandle + 1
        tr == check_rs2_error(
                <<EvA("rs2_create_device", 0, 0, natErr,
                      IF natErr THEN 0 ELSE p)>>)
    IN  IF natErr
        THEN /\ last' = Op("Device::try_create", 0, tr,
                           "CouldNotGetDeviceFromDeviceList", <<>>)
             /\ UNCHANGED <<build, borrowedFrom, iters, checkers, errors, nextHandle, kindOf, released, devices,
                            sensors, frames, raw, options>>
        ELSE /\ nextHandle < MaxHandles
             /\ nextHandle' = p
             /\ kindOf' = [kindOf EXCEPT ![p] = "device"]
             /\ devices' = devices \cup {Device_from(p)}
             /\ last' = Op("Device::try_create", 0, tr, "Ok", <<p>>)
             /\ UNCHANGED <<build, borrowedFrom, iters, checkers, errors, released, sensors, frames, raw, options>>

\* a Device wrapper goes out of scope
DropDevice(d) ==
    LET tr == Device_drop(d)
    IN  /\ d \in devices
        /\ devices' = devices \ {d}
        /\ released' = ReleasedAfter(released, tr)
        /\ last' = Op("drop Device", d.device_ptr, tr, "Ok", <<>>)
        /\ UNCHANGED <<build, borrowedFrom, iters, checkers, errors, nextHandle, kindOf, sensors, frames, raw, options>>

\* Device::hardware_reset(self): the error slot is not read; self is dropped
\* when the function returns.  natErr: rs2_hardware_reset fails.
Device_hardware_reset_mut_by_ref(d, natErr) ==
    /\ d \in devices
    /\ last' = Op("Device::hardware_reset", d.device_ptr,
                  <<Ev("rs2_hardware_reset", d.device_ptr, natErr)>>, "Ok", <<>>)
    /\ UNCHANGED <<build, borrowedFrom, iters, checkers, errors, nextHandle, kindOf, released, devices, sensors,
                   frames, raw, options>>
Device_hardware_reset(d, natErr) ==
    LET tr == <<Ev("rs2_hardware_reset", d.device_ptr, natErr)>>
              \o Device_drop(d)
    IN  /\ d \in devices
        /\ devices' = devices \ {d}
        /\ released' = ReleasedAfter(released, tr)
        /\ last' = Op("Device::hardware_reset", d.device_ptr, tr, "Ok", <<>>)
        /\ UNCHANGED <<build, borrowedFrom, iters, checkers, errors, nextHandle, kindOf, sensors, frames, raw, options>>

\* ------------------------------------------------------------------ Sensor
\* impl Drop for Sensor
Sensor_drop_mut_always(s) == <<Ev("rs2_delete_sensor", s.sensor_ptr, FALSE)>>
Sensor_drop(s) ==
    IF s.should_drop THEN <<Ev("rs2_delete_sensor", s.sensor_ptr, FALSE)>>
    ELSE <<>>

\* impl From<NonNull<rs2_sensor>> for Sensor
Sensor_from_mut_owned(sensor_ptr) ==
    [sensor_ptr |-> sensor_ptr, should_drop |-> TRUE]
Sensor_from(sensor_ptr) == [sensor_ptr |-> sensor_ptr, should_drop |-> FALSE]

\* Sensor::try_create(sensor_list, index), issued after trace tr.
\* natErr: rs2_create_sensor fails; p: the handle the native library
\* allocates when it does not.
Sensor_try_create(tr, index, natErr, p) ==
    LET t == check_rs2_error(
               Append(tr, EvA("rs2_create_sensor", 0, index, natErr,
                              IF natErr THEN 0 ELSE p)))
    IN  IF natErr
        THEN [trace |-> t, result |-> "CouldNotGetSensorFromList", sensor |-> <<>>]
        ELSE [trace |-> t, result |-> "Ok",
              sensor |-> [Sensor_from(p) EXCEPT !.should_drop = TRUE]]

\* what the native library answers during one enumeration:
\* the list query fails, the count query fails, the count, and for each
\* index whether creating that element fails
ListAnswers(maxlen) ==
    UNION {[queryErr : BOOLEAN, countErr : BOOLEAN, len : {n},
            elemErr : [1..n -> BOOLEAN]] : n \in 0..maxlen}

\* the loop of Device::sensors: for i in 0..len { match Sensor::try_create }
RECURSIVE sensors_loop_mut_break(_, _, _, _, _)
sensors_loop_mut_break(i, nat, tr, out, p) ==
    IF i >= nat.len THEN [trace |-> tr, out |-> out]
    ELSE LET c == Sensor_try_create(tr, i, nat.elemErr[i + 1], p + 1)
         IN  IF c.result = "Ok"
             THEN sensors_loop_mut_break(i + 1, nat, c.trace,
                                         Append(out, c.sensor), p + 1)
             ELSE [trace |-> c.trace, out |-> out]
RECURSIVE sensors_loop(_, _, _, _, _)
sensors_loop(i, nat, tr, out, p) ==
    IF i >= nat.len THEN [trace |-> tr, out |-> out]
    ELSE LET c == Sensor_try_create(tr, i, nat.elemErr[i + 1], p + 1)
         IN  IF c.result = "Ok"
             THEN sensors_loop(i + 1, nat, c.trace, Append(out, c.sensor), p + 1)
             ELSE sensors_loop(i + 1, nat, c.trace, out, p)

\* Device::sensors(&self): its native calls and the vector it returns
Device_sensors_run_mut_leak(d, nat, p) ==
    LET t1 == <<Ev("rs2_query_sensors", d.device_ptr, nat.queryErr)>>
        t2 == Append(t1, Ev("rs2_get_sensors_count", 0, nat.countErr))
        l  == sensors_loop(0, nat, t2, <<>>, p)
    IN  IF nat.queryErr THEN [trace |-> free_if_err(t1), out |-> <<>>]
        ELSE IF nat.countErr
        THEN [trace |-> free_if_err(t2), out |-> <<>>]
        ELSE [trace |-> Append(l.trace, Ev("rs2_delete_sensor_list", 0, FALSE)),
              out |-> l.out]
Device_sensors_run(d, nat, p) ==
    LET t1 == <<Ev("rs2_query_sensors", d.device_ptr, nat.queryErr)>>
        t2 == Append(t1, Ev("rs2_get_sensors_count", 0, nat.countErr))
        l  == sensors_loop(0, nat, t2, <<>>, p)
    IN  IF nat.queryErr THEN [trace |-> free_if_err(t1), out |-> <<>>]
        ELSE IF nat.countErr
        THEN [trace |-> Append(free_if_err(t2),
                               Ev("rs2_delete_sensor_list", 0, FALSE)),
              out |-> <<>>]
        ELSE [trace |-> Append(l.trace, Ev("rs2_delete_sensor_list", 0, FALSE)),
              out |-> l.out]

Range(f) == {f[i] : i \in DOMAIN f}

\* Device::sensors(&self)
Device_sensors(d, nat) ==
    LET r == Device_sensors_run(d, nat, nextHandle)
        n == Len(r.out)
    IN  /\ d \in devices
        /\ nextHandle + n <= MaxHandles
        /\ nextHandle' = nextHandle + n
        /\ kindOf' = [h \in Handles |->
                        IF h \in {s.sensor_ptr : s \in Range(r.out)}
                        THEN "sensor" ELSE kindOf[h]]
        /\ sensors' = sensors \cup Range(r.out)
        /\ last' = OpN("Device::sensors", d.device_ptr, nat, r.trace, "Ok", r.out)
        /\ UNCHANGED <<build, borrowedFrom, iters, checkers, errors, released, devices, frames, raw, options>>

\* a Sensor wrapper goes out of scope
DropSensor(s) ==
    LET tr == Sensor_drop(s)
    IN  /\ s \in sensors
        /\ sensors' = sensors \ {s}
        /\ released' = ReleasedAfter(released, tr)
        /\ last' = Op("drop Sensor", s.sensor_ptr, tr, "Ok", <<>>)
        /\ UNCHANGED <<build, borrowedFrom, iters, checkers, errors, nextHandle, kindOf, devices, frames, raw, options>>

\* Sensor::device(&self); natErr: rs2_create_device_from_sensor fails
Sensor_device(s, natErr) ==
    LET p  == nextHandle + 1
        tr == check_rs2_error(
                <<EvA("rs2_create_device_from_sensor", s.sensor_ptr, 0, natErr,
                      IF natErr THEN 0 ELSE p)>>)
    IN  /\ s \in sensors
        /\ IF natErr
           THEN /\ last' = Op("Sensor::device", s.sensor_ptr, tr,
                              "CouldNotCreateDeviceFromSensor", <<>>)
                /\ UNCHANGED <<nextHandle, kindOf, devices>>
           ELSE /\ nextHandle < MaxHandles
                /\ nextHandle' = p
                /\ kindOf' = [kindOf EXCEPT ![p] = "device"]
                /\ devices' = devices \cup {Device_from(p)}
                /\ last' = Op("Sensor::device", s.sensor_ptr, tr, "Ok", <<p>>)
        /\ UNCHANGED <<build, borrowedFrom, iters, checkers, errors, released, sensors, frames, raw, options>>

\* StreamProfile::try_create(list, index), issued after trace tr: a stream
\* profile is borrowed, it is never released by its wrapper
StreamProfile_try_create(tr, index, natErr) ==
    LET t == check_rs2_error(
               Append(tr, EvA("rs2_get_stream_profile", 0, index, natErr, 0)))
    IN  IF natErr
        THEN [trace |-> t, result |-> "CouldNotGetProfileFromList", profile |-> <<>>]
        ELSE [trace |-> t, result |-> "Ok", profile |-> [index |-> index]]

\* the loop of Sensor::stream_profiles
RECURSIVE profiles_loop(_, _, _, _)
profiles_loop(i, nat, tr, out) ==
    IF i >= nat.len THEN [trace |-> tr, out |-> out]
    ELSE LET c == StreamProfile_try_create(tr, i, nat.elemErr[i + 1])
         IN  IF c.result = "Ok"
             THEN profiles_loop(i + 1, nat, c.trace, Append(out, c.profile))
             ELSE profiles_loop(i + 1, nat, c.trace, out)

\* Sensor::stream_profiles(&self): its native calls and the vector it returns
Sensor_stream_profiles_run(s, nat) ==
    LET t1 == <<Ev("rs2_get_stream_profiles", s.sensor_ptr, nat.queryErr)>>
        t2 == Append(t1, Ev("rs2_get_stream_profiles_count", 0, nat.countErr))
        l  == profiles_loop(0, nat, t2, <<>>)
    IN  IF nat.queryErr THEN [trace |-> free_if_err(t1), out |-> <<>>]
        ELSE IF nat.countErr
        THEN [trace |-> Append(free_if_err(t2),
                               Ev("rs2_delete_stream_profiles_list", 0, FALSE)),
              out |-> <<>>]
        ELSE [trace |-> Append(l.trace,
                               Ev("rs2_delete_stream_profiles_list", 0, FALSE)),
              out |-> l.out]

\* Sensor::stream_profiles(&self)
Sensor_stream_profiles(s, nat) ==
    LET r == Sensor_stream_profiles_run(s, nat)
    IN  /\ s \in sensors
        /\ last' = OpN("Sensor::stream_profiles", s.sensor_ptr, nat, r.trace,
                       "Ok", r.out)
        /\ UNCHANGED <<build, borrowedFrom, iters, checkers, errors, nextHandle, kindOf, released, devices, sensors,
                       frames, raw, options>>

\* ---------------------------------------------------------- Sensor options
Options == 1..MaxOpt
Values == 0..MaxValue
Answers == {"yes", "no", "err"}

\* the state of one option in the native library: what the support and the
\* read-only queries answer, whether get and set fail, and the value
OptionStates ==
    [sup : Answers, ro : Answers, getErr : BOOLEAN, setErr : BOOLEAN,
     value : Values]

\* Sensor::supports_option(&self, option), issued after trace tr
supports_option_mut_err_true(tr, s, option) ==
    LET err == options[option].sup = "err"
        t == Append(tr, EvA("rs2_supports_option", s.sensor_ptr, option, err, 0))
    IN  IF ~err THEN [trace |-> t, val |-> options[option].sup = "yes"]
        ELSE [trace |-> free_if_err(t), val |-> TRUE]
supports_option(tr, s, option) ==
    LET err == options[option].sup = "err"
        t == Append(tr, EvA("rs2_supports_option", s.sensor_ptr, option, err, 0))
    IN  IF ~err THEN [trace |-> t, val |-> options[option].sup = "yes"]
        ELSE [trace |-> free_if_err(t), val |-> FALSE]

\* Sensor::is_option_read_only(&self, option), issued after trace tr
is_option_read_only(tr, s, option) ==
    LET sp  == supports_option(tr, s, option)
        err == options[option].ro = "err"
        t   == Append(sp.trace,
                      EvA("rs2_is_option_read_only", s.sensor_ptr, option, err, 0))
    IN  IF ~sp.val THEN [trace |-> sp.trace, val |-> FALSE]
        ELSE IF ~err THEN [trace |-> t, val |-> options[option].ro = "yes"]
        ELSE [trace |-> free_if_err(t), val |-> FALSE]

\* Sensor::get_option(&self, option), issued after trace tr; val: <<>> is None
get_option(tr, s, option) ==
    LET sp  == supports_option(tr, s, option)
        err == options[option].getErr
        t   == Append(sp.trace, EvA("rs2_get_option", s.sensor_ptr, option, err, 0))
    IN  IF ~sp.val THEN [trace |-> sp.trace, val |-> <<>>]
        ELSE IF ~err THEN [trace |-> t, val |-> <<options[option].value>>]
        ELSE [trace |-> free_if_err(t), val |-> <<>>]

\* Sensor::set_option(&mut self, option, value): its native calls and result
set_option_mut_no_ro_check(s, option, value) ==
    LET sp  == supports_option(<<>>, s, option)
        err == options[option].setErr
        t   == check_rs2_error(
                 Append(sp.trace,
                        EvA("rs2_set_option", s.sensor_ptr, option, err, 0)))
    IN  IF ~sp.val THEN [trace |-> sp.trace, result |-> "OptionNotSupported"]
        ELSE IF err THEN [trace |-> t, result |-> "CouldNotSetOption"]
        ELSE [trace |-> t, result |-> "Ok"]
set_option(s, option, value) ==
    LET sp  == supports_option(<<>>, s, option)
        ro  == is_option_read_only(sp.trace, s, option)
        err == options[option].setErr
        t   == check_rs2_error(
                 Append(ro.trace,
                        EvA("rs2_set_option", s.sensor_ptr, option, err, 0)))
    IN  IF ~sp.val THEN [trace |-> sp.trace, result |-> "OptionNotSupported"]
        ELSE IF ro.val THEN [trace |-> ro.trace, result |-> "OptionIsReadOnly"]
        ELSE IF err THEN [trace |-> t, result |-> "CouldNotSetOption"]
        ELSE [trace |-> t, result |-> "Ok"]

\* the native option table after the native calls of trace tr:
\* an rs2_set_option that reports no error stores the value
OptionsAfter(tr, value) ==
    [o \in Options |->
        IF \E i \in 1..Len(tr) :
              tr[i].call = "rs2_set_option" /\ tr[i].arg = o /\ ~tr[i].err
        THEN [options[o] EXCEPT !.value = value] ELSE options[o]]

\* Sensor::set_option(&mut self, option, value).  The record of the operation
\* keeps what is_option_read_only and get_option answered before the call.
Sensor_set_option(s, option, value) ==
    LET r == set_option(s, option, value)
    IN  /\ s \in sensors
        /\ options' = OptionsAfter(r.trace, value)
        /\ last' = OpN("Sensor::set_option", s.sensor_ptr,
                       [option |-> option, value |-> value,
                        read_only |-> is_option_read_only(<<>>, s, option).val,
                        before |-> get_option(<<>>, s, option).val],
                       r.trace, r.result, <<>>)
        /\ UNCHANGED <<build, borrowedFrom, iters, checkers, errors, nextHandle, kindOf, released, devices, sensors,
                       frames, raw>>

\* Sensor::get_option(&self, option)
Sensor_get_option(s, option) ==
    LET r == get_option(<<>>, s, option)
    IN  /\ s \in sensors
        /\ last' = OpN("Sensor::get_option", s.sensor_ptr, [option |-> option],
                       r.trace, "Ok", r.val)
        /\ UNCHANGED <<build, borrowedFrom, iters, checkers, errors, nextHandle, kindOf, released, devices, sensors,
                       frames, raw, options>>

\* Sensor::is_option_read_only(&self, option)
Sensor_is_option_read_only(s, option) ==
    LET r == is_option_read_only(<<>>, s, option)
    IN  /\ s \in sensors
        /\ last' = OpN("Sensor::is_option_read_only", s.sensor_ptr,
                       [option |-> option], r.trace, "Ok", <<r.val>>)
        /\ UNCHANGED <<build, borrowedFrom, iters, checkers, errors, nextHandle, kindOf, released, devices, sensors,
                       frames, raw, options>>

\* the hardware changes the state of an option (firmware, disconnection)
NativeOptionChange(option, st) ==
    /\ options[option] # st
    /\ options' = [options EXCEPT ![option] = st]
    /\ last' = Op("native option change", 0, <<>>, "Ok", <<>>)
    /\ UNCHANGED <<build, borrowedFrom, iters, checkers, errors, nextHandle, kindOf, released, devices, sensors,
                   frames, raw>>

\* ------------------------------------------------------------------ frames
\* the native queries of ImageFrame::try_from, in the order of the code
\* (the 9th is the construction of the StreamProfile from its handle)
ImageQueries_mut_profile_first ==
    <<"rs2_get_frame_width", "rs2_get_frame_height",
      "rs2_get_frame_bits_per_pixel", "rs2_get_frame_stride_in_bytes",
      "rs2_get_frame_stream_profile", "rs2_get_stream_profile_data",
      "rs2_get_frame_timestamp", "rs2_get_frame_timestamp_domain",
      "rs2_get_frame_number", "rs2_get_frame_data_size",
      "rs2_get_frame_data">>
ImageQueries ==
    <<"rs2_get_frame_width", "rs2_get_frame_height",
      "rs2_get_frame_bits_per_pixel", "rs2_get_frame_stride_in_bytes",
      "rs2_get_frame_timestamp", "rs2_get_frame_timestamp_domain",
      "rs2_get_frame_number", "rs2_get_frame_stream_profile",
      "rs2_get_stream_profile_data", "rs2_get_frame_data_size",
      "rs2_get_frame_data">>

\* the failure ImageFrame::try_from returns when the i-th query fails
ImageErrors ==
    <<"CouldNotGetWidth", "CouldNotGetHeight", "CouldNotGetBitsPerPixel",
      "CouldNotGetStride", "CouldNotGetTimestamp", "CouldNotGetTimestampDomain",
      "CouldNotGetFrameNumber", "CouldNotGetFrameStreamProfile",
      "StreamProfileConstructionError", "CouldNotGetDataSize",
      "CouldNotGetData">>

\* the native queries of PointsFrame::try_from, in the order of the code
PointsQueries ==
    <<"rs2_get_frame_timestamp", "rs2_get_frame_timestamp_domain",
      "rs2_get_frame_number", "rs2_get_frame_stream_profile",
      "rs2_get_stream_profile_data", "rs2_get_frame_points_count",
      "rs2_get_frame_vertices", "rs2_get_frame_texture_coordinates">>

PointsErrors_mut_count_as_data ==
    <<"CouldNotGetTimestamp", "CouldNotGetTimestampDomain",
      "CouldNotGetFrameNumber", "CouldNotGetFrameStreamProfile",
      "StreamProfileConstructionError", "CouldNotGetData",
      "CouldNotGetData", "CouldNotGetData">>
PointsErrors ==
    <<"CouldNotGetTimestamp", "CouldNotGetTimestampDomain",
      "CouldNotGetFrameNumber", "CouldNotGetFrameStreamProfile",
      "StreamProfileConstructionError", "CouldNotGetPointCount",
      "CouldNotGetData", "CouldNotGetData">>

\* the native queries of the legacy DepthFrame::try_from (frame/depth.rs)
LegacyDepthQueries ==
    <<"rs2_get_frame_width", "rs2_get_frame_height",
      "rs2_get_frame_bits_per_pixel", "rs2_get_frame_stride_in_bytes",
      "rs2_get_frame_stream_profile", "rs2_get_stream_profile_data",
      "rs2_get_frame_data_size", "rs2_get_frame_data">>

LegacyDepthErrors ==
    <<"CouldNotGetWidth", "CouldNotGetHeight", "CouldNotGetBitsPerPixel",
      "CouldNotGetStride", "CouldNotGetFrameStreamProfile",
      "CouldNotGetFrameStreamProfile", "CouldNotGetDataSize",
      "CouldNotGetData">>

\* queries qs[i..to] on frame fp, each followed by check_rs2_error!(..)?:
\* the first that fails ends the construction.  failAt: the failing query.
RECURSIVE run_queries_mut_no_abort(_, _, _, _, _, _)
run_queries_mut_no_abort(qs, i, to, fp, failAt, tr) ==
    IF i > to THEN [trace |-> tr, failed |-> 0, msg |-> NoMessage]
    ELSE run_queries_mut_no_abort(qs, i + 1, to, fp, failAt,
            check_rs2_error(Append(tr, Ev(qs[i], fp, i = failAt))))
RECURSIVE run_queries(_, _, _, _, _, _)
run_queries(qs, i, to, fp, failAt, tr) ==
    IF i > to THEN [trace |-> tr, failed |-> 0, msg |-> NoMessage]
    ELSE LET t == check_rs2_error(Append(tr, Ev(qs[i], fp, i = failAt)))
         IN  IF i = failAt
             THEN [trace |-> t, failed |-> i, msg |-> Len(tr) + 1]
             ELSE run_queries(qs, i + 1, to, fp, failAt, t)

\* "Could not construct stream profile.": a text that is not a native message
FixedMessage == 0 - 1

\* the same in the legacy frames: on failure the message is read from the
\* error object and the function returns; rs2_free_error is not called
RECURSIVE run_queries_legacy(_, _, _, _, _, _)
run_queries_legacy(qs, i, to, fp, failAt, tr) ==
    IF i > to THEN [trace |-> tr, failed |-> 0, msg |-> NoMessage]
    ELSE LET e == Append(tr, Ev(qs[i], fp, i = failAt))
             \* stream::Profile::new makes its own checked call
             t == IF qs[i] = "rs2_get_stream_profile_data"
                  THEN check_rs2_error(e) ELSE e
         IN  IF i = failAt
             THEN [trace |-> t, failed |-> i,
                   msg |-> IF qs[i] = "rs2_get_stream_profile_data"
                           THEN FixedMessage ELSE Len(tr) + 1]
             ELSE run_queries_legacy(qs, i + 1, to, fp, failAt, t)

\* what the native library answers about an image frame: the query that
\* fails (0: none) and the values; the values of a construction that fails
\* before it uses them are left at 0.  K is the type parameter of
\* ImageFrame<K> that the caller constructs and stream_kind the kind of the
\* stream profile of the frame: here a DepthFrame of a depth stream
ImageAnswers ==
    {a \in [failAt : 0..Len(ImageQueries), width : 0..MaxDim,
            height : 0..MaxDim, bits_per_pixel : {0, 8, 16}, size : 0..MaxSize,
            K : {"Depth"}, stream_kind : {"Depth"}] :
        IF a.failAt \in 1..10
        THEN a.width = 0 /\ a.height = 0 /\ a.bits_per_pixel = 0 /\ a.size = 0
        ELSE a.bits_per_pixel # 0}

\* debug_assert_eq!(size, width * height * bits_per_pixel / BITS_PER_BYTE)
debug_assert_size_mut_never(nat) == TRUE
debug_assert_size(nat) ==
    build = "debug" =>
        nat.size = (nat.width * nat.height * nat.bits_per_pixel) \div BITS_PER_BYTE

\* what rs2_get_frame_stride_in_bytes answers: the rows of the native buffer
\* are not padded
NativeStride(nat) == nat.width * (nat.bits_per_pixel \div BITS_PER_BYTE)

\* ImageFrame::try_from(frame_ptr): its native calls and what it returns
ImageFrame_try_from_run(fp, nat) ==
    LET q1 == run_queries(ImageQueries, 1, 10, fp, nat.failAt, <<>>)
        q2 == run_queries(ImageQueries, 11, 11, fp, nat.failAt, q1.trace)
    IN  IF q1.failed # 0
        THEN [trace |-> q1.trace, result |-> ImageErrors[q1.failed],
              frame |-> <<>>, msg |-> q1.msg]
        ELSE IF ~debug_assert_size(nat)
        THEN [trace |-> q1.trace, result |-> "panic", frame |-> <<>>,
              msg |-> NoMessage]
        ELSE IF q2.failed # 0
        THEN [trace |-> q2.trace, result |-> ImageErrors[q2.failed],
              frame |-> <<>>, msg |-> q2.msg]
        ELSE [trace |-> q2.trace, result |-> "Ok", msg |-> NoMessage,
              frame |-> [frame_ptr |-> fp, category |-> "image",
                         width |-> nat.width, height |-> nat.height,
                         bits_per_pixel |-> nat.bits_per_pixel,
                         stride |-> NativeStride(nat),
                         K |-> nat.K, stream_kind |-> nat.stream_kind,
                         data_size_in_bytes |-> nat.size,
                         should_drop |-> TRUE]]

\* what the native library answers about a points frame
PointsAnswers ==
    {a \in [failAt : 0..Len(PointsQueries), num_points : 0..MaxSize,
            stream_kind : {"Depth"}] :
        a.failAt # 0 => a.num_points = 0}

\* PointsFrame::try_from(frame_ptr): its native calls and what it returns
PointsFrame_try_from_run(fp, nat) ==
    LET q == run_queries(PointsQueries, 1, 8, fp, nat.failAt, <<>>)
    IN  IF q.failed # 0
        THEN [trace |-> q.trace, result |-> PointsErrors[q.failed],
              frame |-> <<>>, msg |-> q.msg]
        ELSE [trace |-> q.trace, result |-> "Ok", msg |-> NoMessage,
              frame |-> [frame_ptr |-> fp, category |-> "points",
                         num_points |-> nat.num_points,
                         stream_kind |-> nat.stream_kind,
                         should_drop |-> TRUE]]

\* what the native library answers about a frame to the legacy DepthFrame
LegacyDepthAnswers ==
    {a \in [failAt : 0..Len(LegacyDepthQueries), width : 0..MaxDim,
            height : 0..MaxDim, bits_per_pixel : {0, 8, 16}, size : 0..MaxSize] :
        IF a.failAt # 0
        THEN a.width = 0 /\ a.height = 0 /\ a.bits_per_pixel = 0 /\ a.size = 0
        ELSE a.bits_per_pixel # 0}

\* the legacy DepthFrame::try_from(frame_ptr) of frame/depth.rs; the legacy
\* frame has no should_drop field, its drop always releases
LegacyDepthFrame_try_from_run(fp, nat) ==
    LET q == run_queries_legacy(LegacyDepthQueries, 1, 8, fp, nat.failAt, <<>>)
    IN  IF q.failed # 0
        THEN [trace |-> q.trace, result |-> LegacyDepthErrors[q.failed],
              frame |-> <<>>, msg |-> q.msg]
        ELSE [trace |-> q.trace, result |-> "Ok", msg |-> NoMessage,
              frame |-> [frame_ptr |-> fp, category |-> "legacy_depth",
                         width |-> nat.width, height |-> nat.height,
                         bits_per_pixel |-> nat.bits_per_pixel,
                         data_len |-> nat.size,
                         should_drop |-> TRUE]]

\* the frame object that the live wrapper is: its handle, its flag and
\* the fields cached at construction
Wrapper(frame) == frame

\* impl Drop for ImageFrame<K>
ImageFrame_drop_mut_always(f) == <<Ev("rs2_release_frame", f.frame_ptr, FALSE)>>
ImageFrame_drop(f) ==
    IF f.should_drop THEN <<Ev("rs2_release_frame", f.frame_ptr, FALSE)>>
    ELSE <<>>

\* impl Drop for PointsFrame
PointsFrame_drop(f) ==
    IF f.should_drop THEN <<Ev("rs2_release_frame", f.frame_ptr, FALSE)>>
    ELSE <<>>

\* impl Drop for DepthFrame<'a> (legacy)
LegacyDepthFrame_drop(f) == <<Ev("rs2_release_frame", f.frame_ptr, FALSE)>>

\* the drop of a frame wrapper of any category
Frame_drop(f) ==
    IF f.category = "image" THEN ImageFrame_drop(f)
    ELSE IF f.category = "points" THEN PointsFrame_drop(f)
    ELSE LegacyDepthFrame_drop(f)

\* the pipeline hands a new frame handle to the caller
DeliverFrame ==
    LET p == nextHandle + 1
    IN  /\ nextHandle < MaxHandles
        /\ nextHandle' = p
        /\ kindOf' = [kindOf EXCEPT ![p] = "frame"]
        /\ raw' = raw \cup {[frame_ptr |-> p, origin |-> "pipeline"]}
        /\ last' = Op("deliver frame", 0, <<>>, "Ok", <<p>>)
        /\ UNCHANGED <<build, borrowedFrom, iters, checkers, errors, released, devices, sensors, frames, options>>

\* a frame construction r on the bare handle rw: on success the wrapper
\* owns the handle, otherwise the handle stays with the caller; the record
\* of the operation tells where the caller had the handle from
Construct_mut_consume(name, rw, nat, r) ==
    /\ rw \in raw
    /\ raw' = raw \ {rw}
    /\ frames' = IF r.result = "Ok" THEN frames \cup {Wrapper(r.frame)}
                 ELSE frames
    /\ last' = OpM(name, rw.frame_ptr, nat, r.trace, r.result, r.frame, r.msg)
                @@ [origin |-> rw.origin]
    /\ UNCHANGED <<build, borrowedFrom, iters, checkers, errors, nextHandle,
                   kindOf, released, devices, sensors, options>>
Construct(name, rw, nat, r) ==
    /\ rw \in raw
    /\ IF r.result = "Ok"
       THEN /\ frames' = frames \cup {Wrapper(r.frame)}
            /\ raw' = raw \ {rw}
       ELSE UNCHANGED <<frames, raw>>
    /\ last' = OpM(name, rw.frame_ptr, nat, r.trace, r.result, r.frame, r.msg)
                @@ [origin |-> rw.origin]
    /\ UNCHANGED <<build, borrowedFrom, iters, checkers, errors, nextHandle, kindOf, released, devices, sensors, options>>

\* ImageFrame::try_from(frame_ptr)
ImageFrame_try_from(rw, nat) ==
    Construct("ImageFrame::try_from", rw, nat,
              ImageFrame_try_from_run(rw.frame_ptr, nat))

\* PointsFrame::try_from(frame_ptr)
PointsFrame_try_from(rw, nat) ==
    Construct("PointsFrame::try_from", rw, nat,
              PointsFrame_try_from_run(rw.frame_ptr, nat))

\* DepthFrame::try_from(frame_ptr) (legacy)
LegacyDepthFrame_try_from(rw, nat) ==
    Construct("legacy DepthFrame::try_from", rw, nat,
              LegacyDepthFrame_try_from_run(rw.frame_ptr, nat))

\* a frame wrapper goes out of scope
DropFrame(f) ==
    LET tr == Frame_drop(f)
    IN  /\ f \in frames
        /\ frames' = frames \ {f}
        /\ released' = ReleasedAfter(released, tr)
        /\ last' = Op("drop frame", f.frame_ptr, tr, "Ok", <<>>)
        /\ UNCHANGED <<build, borrowedFrom, iters, checkers, errors, nextHandle, kindOf, devices, sensors, raw, options>>

\* get_owned_raw(mut self): self.should_drop = false
owned_raw_flag_mut_keep(f) == f
owned_raw_flag(f) == [f EXCEPT !.should_drop = FALSE]

\* FrameEx::get_owned_raw(mut self) of ImageFrame and PointsFrame: clears
\* should_drop, returns frame_ptr; self is dropped when the function returns
Frame_get_owned_raw(f) ==
    LET tr == Frame_drop(owned_raw_flag(f))
    IN  /\ f \in frames
        /\ f.category \in {"image", "points"}
        /\ frames' = frames \ {f}
        /\ raw' = raw \cup {[frame_ptr |-> f.frame_ptr, origin |-> "get_owned_raw"]}
        /\ released' = ReleasedAfter(released, tr)
        /\ last' = OpN("get_owned_raw", f.frame_ptr, f, tr, "Ok", <<f.frame_ptr>>)
        /\ UNCHANGED <<build, borrowedFrom, iters, checkers, errors, nextHandle, kindOf, devices, sensors, options>>

\* FrameEx::sensor(&self) of ImageFrame and PointsFrame; natErr:
\* rs2_get_frame_sensor fails.  The Sensor is made by Sensor::from.
Frame_sensor(f, natErr) ==
    LET p  == nextHandle + 1
        tr == check_rs2_error(
                <<EvA("rs2_get_frame_sensor", f.frame_ptr, 0, natErr,
                      IF natErr THEN 0 ELSE p)>>)
    IN  /\ f \in frames
        /\ f.category \in {"image", "points"}
        /\ IF natErr
           THEN /\ last' = Op("Frame::sensor", f.frame_ptr, tr,
                              "CouldNotGetFrameSensorError", <<>>)
                /\ UNCHANGED <<nextHandle, kindOf, sensors, borrowedFrom>>
           ELSE /\ nextHandle < MaxHandles
                /\ nextHandle' = p
                /\ kindOf' = [kindOf EXCEPT ![p] = "frame_sensor"]
                /\ borrowedFrom' = [borrowedFrom EXCEPT ![p] = f.frame_ptr]
                /\ sensors' = sensors \cup {Sensor_from(p)}
                /\ last' = Op("Frame::sensor", f.frame_ptr, tr, "Ok", <<p>>)
        /\ UNCHANGED <<build, iters, checkers, errors, released, devices, frames, raw, options>>

\* -------------------------------------------------------- advisory queries
\* camera-info keys and frame-metadata keys
Keys == 1..MaxOpt

\* an operation that changes nothing but the record of the last operation
Query(name, self, nat, tr, out) ==
    /\ last' = OpN(name, self, nat, tr, "Ok", out)
    /\ UNCHANGED <<build, borrowedFrom, iters, checkers, errors, nextHandle, kindOf, released, devices, sensors,
                   frames, raw, options>>

\* Device::supports_info(&self, camera_info), issued after trace tr;
\* ans: what rs2_supports_device_info answers
Device_supports_info_run(tr, d, key, ans) ==
    LET err == ans = "err"
        t == Append(tr, EvA("rs2_supports_device_info", d.device_ptr, key, err, 0))
    IN  IF ~err THEN [trace |-> t, val |-> ans = "yes"]
        ELSE [trace |-> free_if_err(t), val |-> FALSE]

\* Device::info(&self, camera_info); getErr: rs2_get_device_info fails.
\* val: <<>> is None, <<key>> the string of that key
Device_info_run_mut_no_support_check(d, key, ans, getErr) ==
    LET t == <<EvA("rs2_get_device_info", d.device_ptr, key, getErr, 0)>>
    IN  IF ~getErr THEN [trace |-> t, val |-> <<key>>]
        ELSE [trace |-> free_if_err(t), val |-> <<>>]
Device_info_run(d, key, ans, getErr) ==
    LET sp == Device_supports_info_run(<<>>, d, key, ans)
        t  == Append(sp.trace,
                     EvA("rs2_get_device_info", d.device_ptr, key, getErr, 0))
    IN  IF ~sp.val THEN [trace |-> sp.trace, val |-> <<>>]
        ELSE IF ~getErr THEN [trace |-> t, val |-> <<key>>]
        ELSE [trace |-> free_if_err(t), val |-> <<>>]

\* Device::set_real_time(&self, realtime);
\* natErr: rs2_playback_device_set_real_time fails
Device_set_real_time_run_mut_true(d, realtime, natErr) ==
    [trace |-> free_if_err(<<EvA("rs2_playback_device_set_real_time",
                                 d.device_ptr, IF realtime THEN 1 ELSE 0,
                                 natErr, 0)>>),
     val |-> TRUE]
Device_set_real_time_run(d, realtime, natErr) ==
    LET t == <<EvA("rs2_playback_device_set_real_time", d.device_ptr,
                   IF realtime THEN 1 ELSE 0, natErr, 0)>>
    IN  IF ~natErr THEN [trace |-> t, val |-> TRUE]
        ELSE [trace |-> free_if_err(t), val |-> FALSE]

\* Sensor::supports_info(&self, camera_info), issued after trace tr
Sensor_supports_info_run(tr, s, key, ans) ==
    LET err == ans = "err"
        t == Append(tr, EvA("rs2_supports_sensor_info", s.sensor_ptr, key, err, 0))
    IN  IF ~err THEN [trace |-> t, val |-> ans = "yes"]
        ELSE [trace |-> free_if_err(t), val |-> FALSE]

\* Sensor::info(&self, camera_info)
Sensor_info_run(s, key, ans, getErr) ==
    LET sp == Sensor_supports_info_run(<<>>, s, key, ans)
        t  == Append(sp.trace,
                     EvA("rs2_get_sensor_info", s.sensor_ptr, key, getErr, 0))
    IN  IF ~sp.val THEN [trace |-> sp.trace, val |-> <<>>]
        ELSE IF ~getErr THEN [trace |-> t, val |-> <<key>>]
        ELSE [trace |-> free_if_err(t), val |-> <<>>]

\* the range the native library reports for every option
NativeRange == [min |-> 0, max |-> MaxValue, step |-> 1, default |-> 0]

\* Sensor::get_option_range(&self, option); natErr: rs2_get_option_range fails
get_option_range(s, option, natErr) ==
    LET sp == supports_option(<<>>, s, option)
        t  == Append(sp.trace,
                     EvA("rs2_get_option_range", s.sensor_ptr, option, natErr, 0))
    IN  IF ~sp.val THEN [trace |-> sp.trace, val |-> <<>>]
        ELSE IF ~natErr THEN [trace |-> t, val |-> <<NativeRange>>]
        ELSE [trace |-> free_if_err(t), val |-> <<>>]

\* Sensor::get_region_of_interest(&self);
\* natErr: rs2_get_region_of_interest fails
get_region_of_interest(s, natErr) ==
    LET t == <<Ev("rs2_get_region_of_interest", s.sensor_ptr, natErr)>>
    IN  IF ~natErr
        THEN [trace |-> t,
              val |-> <<[min_x |-> 0, min_y |-> 0, max_x |-> 0, max_y |-> 0]>>]
        ELSE [trace |-> free_if_err(t), val |-> <<>>]

\* FrameEx::supports_metadata(&self, metadata_kind) of ImageFrame and
\* PointsFrame, issued after trace tr
supports_metadata(tr, f, key, ans) ==
    LET err == ans = "err"
        t == Append(tr, EvA("rs2_supports_frame_metadata", f.frame_ptr, key, err, 0))
    IN  IF ~err THEN [trace |-> t, val |-> ans = "yes"]
        ELSE [trace |-> free_if_err(t), val |-> FALSE]

\* FrameEx::metadata(&self, metadata_kind) of ImageFrame and PointsFrame
metadata(f, key, ans, getErr) ==
    LET sp == supports_metadata(<<>>, f, key, ans)
        t  == Append(sp.trace,
                     EvA("rs2_get_frame_metadata", f.frame_ptr, key, getErr, 0))
    IN  IF ~sp.val THEN [trace |-> sp.trace, val |-> <<>>]
        ELSE IF ~getErr THEN [trace |-> t, val |-> <<key>>]
        ELSE [trace |-> free_if_err(t), val |-> <<>>]

\* what the native library answers to a support query and to the get call
\* that follows it (the get call is only issued after a yes)
KeyAnswers ==
    {a \in [sup : Answers, getErr : BOOLEAN] : a.sup # "yes" => ~a.getErr}

\* the record of what was asked and what the native library answered
Asking(key, a) == [key |-> key, sup |-> a.sup, getErr |-> a.getErr]

\* Device::supports_info(&self, camera_info)
Device_supports_info(d, key, a) ==
    LET r == Device_supports_info_run(<<>>, d, key, a.sup)
    IN  /\ d \in devices
        /\ Query("Device::supports_info", d.device_ptr, Asking(key, a),
                 r.trace, <<r.val>>)

\* Device::info(&self, camera_info)
Device_info(d, key, a) ==
    LET r == Device_info_run(d, key, a.sup, a.getErr)
    IN  /\ d \in devices
        /\ Query("Device::info", d.device_ptr, Asking(key, a), r.trace, r.val)

\* Device::set_real_time(&self, realtime)
Device_set_real_time(d, realtime, natErr) ==
    LET r == Device_set_real_time_run(d, realtime, natErr)
    IN  /\ d \in devices
        /\ Query("Device::set_real_time", d.device_ptr,
                 [key |-> IF realtime THEN 1 ELSE 0, sup |-> "yes",
                  getErr |-> natErr],
                 r.trace, <<r.val>>)

\* Sensor::supports_info(&self, camera_info)
Sensor_supports_info(s, key, a) ==
    LET r == Sensor_supports_info_run(<<>>, s, key, a.sup)
    IN  /\ s \in sensors
        /\ Query("Sensor::supports_info", s.sensor_ptr, Asking(key, a),
                 r.trace, <<r.val>>)

\* Sensor::info(&self, camera_info)
Sensor_info(s, key, a) ==
    LET r == Sensor_info_run(s, key, a.sup, a.getErr)
    IN  /\ s \in sensors
        /\ Query("Sensor::info", s.sensor_ptr, Asking(key, a), r.trace, r.val)

\* Sensor::supports_option(&self, option)
Sensor_supports_option(s, option) ==
    LET r == supports_option(<<>>, s, option)
    IN  /\ s \in sensors
        /\ Query("Sensor::supports_option", s.sensor_ptr, [option |-> option],
                 r.trace, <<r.val>>)

\* Sensor::get_option_range(&self, option)
Sensor_get_option_range(s, option, natErr) ==
    LET r == get_option_range(s, option, natErr)
    IN  /\ s \in sensors
        /\ Query("Sensor::get_option_range", s.sensor_ptr,
                 [option |-> option, getErr |-> natErr], r.trace, r.val)

\* Sensor::get_region_of_interest(&self)
Sensor_get_region_of_interest(s, natErr) ==
    LET r == get_region_of_interest(s, natErr)
    IN  /\ s \in sensors
        /\ Query("Sensor::get_region_of_interest", s.sensor_ptr,
                 [key |-> 0, sup |-> "yes", getErr |-> natErr], r.trace, r.val)

\* FrameEx::supports_metadata(&self, metadata_kind)
Frame_supports_metadata(f, key, a) ==
    LET r == supports_metadata(<<>>, f, key, a.sup)
    IN  /\ f \in frames
        /\ f.category \in {"image", "points"}
        /\ Query("Frame::supports_metadata", f.frame_ptr, Asking(key, a),
                 r.trace, <<r.val>>)

\* FrameEx::metadata(&self, metadata_kind)
Frame_metadata(f, key, a) ==
    LET r == metadata(f, key, a.sup, a.getErr)
    IN  /\ f \in frames
        /\ f.category \in {"image", "points"}
        /\ Query("Frame::metadata", f.frame_ptr, Asking(key, a), r.trace, r.val)

\* --------------------------------------------------------------- extension
\* the allowlist of sensor-extension tags (kind/extension.rs)
SENSOR_EXTENSIONS == [i \in 1..MaxExt |-> i]

\* what rs2_is_sensor_extendable_to answers for each tag of the allowlist
ExtensionAnswers == [1..MaxExt -> Answers]

\* the closure given to find: true only when the error slot is empty and
\* the answer is nonzero
is_extendable_mut_err_yes(a) == a # "no"
is_extendable(a) == a = "yes"

\* SENSOR_EXTENSIONS.iter().find(|ext| ...): the tags are asked in order,
\* a query that fails frees its error and counts as a no, the first yes
\* ends the search.  found: the position of the tag found (0: none)
RECURSIVE extension_find_mut_no_stop(_, _, _, _)
extension_find_mut_no_stop(s, i, ans, tr) ==
    IF i > Len(SENSOR_EXTENSIONS) THEN [trace |-> tr, found |-> 0]
    ELSE LET t == free_if_err(
                    Append(tr, EvA("rs2_is_sensor_extendable_to", s.sensor_ptr,
                                   SENSOR_EXTENSIONS[i], ans[i] = "err", 0)))
             r == extension_find_mut_no_stop(s, i + 1, ans, t)
         IN  IF r.found = 0 /\ is_extendable(ans[i])
             THEN [trace |-> r.trace, found |-> i]
             ELSE r
RECURSIVE extension_find(_, _, _, _)
extension_find(s, i, ans, tr) ==
    IF i > Len(SENSOR_EXTENSIONS) THEN [trace |-> tr, found |-> 0]
    ELSE LET t == free_if_err(
                    Append(tr, EvA("rs2_is_sensor_extendable_to", s.sensor_ptr,
                                   SENSOR_EXTENSIONS[i], ans[i] = "err", 0)))
         IN  IF is_extendable(ans[i]) THEN [trace |-> t, found |-> i]
             ELSE extension_find(s, i + 1, ans, t)

\* Sensor::extension(&self): find(..).unwrap() panics when nothing is found
Sensor_extension_mut_first_tag(s, ans) ==
    LET r == extension_find(s, 1, ans, <<>>)
    IN  /\ s \in sensors
        /\ last' = OpN("Sensor::extension", s.sensor_ptr, ans, r.trace, "Ok",
                       IF r.found = 0 THEN <<SENSOR_EXTENSIONS[1]>>
                       ELSE <<SENSOR_EXTENSIONS[r.found]>>)
        /\ UNCHANGED <<build, borrowedFrom, iters, checkers, errors, nextHandle, kindOf, released, devices, sensors,
                       frames, raw, options>>
Sensor_extension(s, ans) ==
    LET r == extension_find(s, 1, ans, <<>>)
    IN  /\ s \in sensors
        /\ last' = OpN("Sensor::extension", s.sensor_ptr, ans, r.trace,
                       IF r.found = 0 THEN "panic" ELSE "Ok",
                       IF r.found = 0 THEN <<>>
                       ELSE <<SENSOR_EXTENSIONS[r.found]>>)
        /\ UNCHANGED <<build, borrowedFrom, iters, checkers, errors, nextHandle, kindOf, released, devices, sensors,
                       frames, raw, options>>

\* ------------------------------------------------------------ pixel access
\* ImageFrame::get_unchecked(&self, col, row): the pixel get_pixel decodes,
\* at row * stride + col * bytes per pixel of the data
get_unchecked(f, col, row) ==
    [col |-> col, row |-> row,
     offset |-> row * f.stride + col * (f.bits_per_pixel \div BITS_PER_BYTE)]

\* ImageFrame::get(&self, col, row); <<>> is None
get_mut_off_by_one(f, col, row) ==
    IF col > f.width \/ row > f.height THEN <<>>
    ELSE <<get_unchecked(f, col, row)>>
get(f, col, row) ==
    IF col >= f.width \/ row >= f.height THEN <<>>
    ELSE <<get_unchecked(f, col, row)>>

\* VideoFrameUnsafeEx::at_no_bounds_check of the legacy DepthFrame:
\* &self.data[row * self.width + col], an index Rust checks against the slice
at_no_bounds_check(f, col, row) ==
    LET offset == row * f.width + col
    IN  IF offset >= f.data_len THEN [result |-> "panic", out |-> <<>>]
        ELSE [result |-> "Ok", out |-> <<offset>>]

\* VideoFrameEx::at of the legacy DepthFrame
at(f, col, row) ==
    IF col >= f.width \/ row >= f.height
    THEN [result |-> "PixelIndexOutOfBoundsError", out |-> <<>>]
    ELSE at_no_bounds_check(f, col, row)

\* ImageFrame::get(&self, col, row)
ImageFrame_get(f, col, row) ==
    /\ f \in frames
    /\ f.category = "image"
    /\ Query("ImageFrame::get", f.frame_ptr,
             [col |-> col, row |-> row, width |-> f.width, height |-> f.height],
             <<>>, get(f, col, row))

\* DepthFrame::at(&self, col, row) (legacy)
LegacyDepthFrame_at(f, col, row) ==
    LET r == at(f, col, row)
    IN  /\ f \in frames
        /\ f.category = "legacy_depth"
        /\ last' = OpN("legacy DepthFrame::at", f.frame_ptr,
                       [col |-> col, row |-> row, width |-> f.width,
                        height |-> f.height],
                       <<>>, r.result, r.out)
        /\ UNCHANGED <<build, borrowedFrom, iters, checkers, errors, nextHandle, kindOf, released, devices, sensors,
                       frames, raw, options>>

\* ---------------------------------------------------------- frame category
\* the type parameters K of ImageFrame<K>
ImageKinds ==
    {"Depth", "Disparity", "Color", "Infrared", "Fisheye", "Confidence"}

\* the values of Rs2StreamKind that the frame categories name
StreamKinds == {"Any", "Depth", "Color", "Infrared", "Fisheye", "Confidence"}

\* FrameCategory::kind() of DepthFrame, DisparityFrame, ColorFrame,
\* InfraredFrame, FisheyeFrame, ConfidenceFrame and PointsFrame
kind_mut_disparity_is_depth(f) ==
    IF f.category = "points" THEN "Any"
    ELSE IF f.K = "Disparity" THEN "Depth" ELSE f.K
kind(f) ==
    IF f.category = "points" THEN "Any"
    ELSE IF f.K = "Depth" THEN "Depth"
    ELSE IF f.K = "Disparity" THEN "Any"
    ELSE IF f.K = "Color" THEN "Color"
    ELSE IF f.K = "Infrared" THEN "Infrared"
    ELSE IF f.K = "Fisheye" THEN "Fisheye"
    ELSE "Confidence"

\* FrameCategory::has_correct_kind(&self):
\* self.frame_stream_profile.kind() == Self::kind()
has_correct_kind(f) == f.stream_kind = kind(f)

\* FrameCategory::has_correct_kind(&self) of ImageFrame<K> and PointsFrame
Frame_has_correct_kind(f) ==
    /\ f \in frames
    /\ f.category \in {"image", "points"}
    /\ Query("has_correct_kind", f.frame_ptr, 0, <<>>, <<has_correct_kind(f)>>)

\* ---------------------------------------------------------- pixel iterator
\* the live frame wrapper of handle h
FrameOf(h) == CHOOSE f \in frames : f.frame_ptr = h

\* ImageFrame::iter(&self): Iter { frame: self, column: 0, row: 0 };
\* yielded counts the items that the iterator has returned so far (history)
iter(f) == [frame |-> f.frame_ptr, column |-> 0, row |-> 0, yielded |-> 0]

\* Iter::next(&mut self): the iterator after the call and the item (<<>>: None)
Iter_next_run_mut_no_wrap(f, it) ==
    IF it.column >= f.width \/ it.row >= f.height
    THEN [it |-> it, out |-> <<>>]
    ELSE [it |-> [it EXCEPT !.column = it.column + 1,
                            !.row = IF it.column + 1 >= f.width
                                    THEN it.row + 1 ELSE it.row,
                            !.yielded = it.yielded + 1],
          out |-> <<get_unchecked(f, it.column, it.row)>>]
Iter_next_run(f, it) ==
    IF it.column >= f.width \/ it.row >= f.height
    THEN [it |-> it, out |-> <<>>]
    ELSE LET next   == get_unchecked(f, it.column, it.row)
             column == it.column + 1
         IN  [it |-> [it EXCEPT !.column = IF column >= f.width THEN 0
                                          ELSE column,
                                !.row = IF column >= f.width THEN it.row + 1
                                        ELSE it.row,
                                !.yielded = it.yielded + 1],
              out |-> <<next>>]

\* ImageFrame::iter(&self)
ImageFrame_iter(f) ==
    /\ f \in frames
    /\ f.category = "image"
    /\ iters' = iters \cup {iter(f)}
    /\ last' = Op("ImageFrame::iter", f.frame_ptr, <<>>, "Ok", <<iter(f)>>)
    /\ UNCHANGED <<build, borrowedFrom, checkers, errors, nextHandle, kindOf, released, devices, sensors,
                   frames, raw, options>>

\* Iter::next(&mut self)
Iter_next(it) ==
    LET f == FrameOf(it.frame)
        r == Iter_next_run(f, it)
    IN  /\ it \in iters
        /\ iters' = (iters \ {it}) \cup {r.it}
        /\ last' = OpN("Iter::next", it.frame,
                       [it |-> it, width |-> f.width, height |-> f.height],
                       <<>>, "Ok", r.out)
        /\ UNCHANGED <<build, borrowedFrom, checkers, errors, nextHandle, kindOf, released, devices, sensors,
                       frames, raw, options>>

\* the iterator goes out of scope
DropIter(it) ==
    /\ it \in iters
    /\ iters' = iters \ {it}
    /\ last' = Op("drop iter", it.frame, <<>>, "Ok", <<>>)
    /\ UNCHANGED <<build, borrowedFrom, checkers, errors, nextHandle, kindOf, released, devices, sensors,
                   frames, raw, options>>

\* ---------------------------------------------------------- points views
\* PointsFrame::points_count(&self)
points_count(f) == f.num_points

\* PointsFrame::vertices(&self): slice::from_raw_parts(vertices_data_ptr,
\* num_points)
vertices_mut_bytes(f) == [ptr |-> "vertices", len |-> 3 * f.num_points]
vertices(f) == [ptr |-> "vertices", len |-> f.num_points]

\* PointsFrame::texture_coordinates(&self): slice::from_raw_parts(
\* texture_data_ptr.cast::<[f32; 2]>(), num_points)
texture_coordinates(f) == [ptr |-> "texture", len |-> f.num_points]

\* PointsFrame::vertices(&self)
PointsFrame_vertices(f) ==
    /\ f \in frames
    /\ f.category = "points"
    /\ Query("PointsFrame::vertices", f.frame_ptr, 0, <<>>, <<vertices(f)>>)

\* PointsFrame::texture_coordinates(&self)
PointsFrame_texture_coordinates(f) ==
    /\ f \in frames
    /\ f.category = "points"
    /\ Query("PointsFrame::texture_coordinates", f.frame_ptr, 0, <<>>,
             <<texture_coordinates(f)>>)

\* PointsFrame::points_count(&self)
PointsFrame_points_count(f) ==
    /\ f \in frames
    /\ f.category = "points"
    /\ Query("PointsFrame::points_count", f.frame_ptr, 0, <<>>,
             <<points_count(f)>>)

\* ------------------------------------------------------------ error.rs
ErrIds == 1..MaxErr

\* no error object exists: live: the Error wrappers, freed: the number of
\* rs2_free_error calls on each object, made: the objects created so far
NoErrors == [live |-> {}, freed |-> [e \in ErrIds |-> 0], made |-> 0]

\* ErrorChecker::new(); id tells the objects apart, ptr = 0 is null
ErrorChecker_new_run(id) == [id |-> id, checked |-> FALSE, ptr |-> 0]

\* impl Drop for ErrorChecker
ErrorChecker_drop_mut_silent(c) == "Ok"
ErrorChecker_drop(c) == IF ~c.checked THEN "panic" ELSE "Ok"

\* Error::from_ptr(ptr)
Error_from_ptr(ptr) == [ptr |-> ptr]

\* ErrorChecker::check(mut self): the result, the Error returned and the
\* outcome of dropping self when the function returns
ErrorChecker_check_run(c) ==
    LET self == [c EXCEPT !.checked = TRUE]
    IN  [result |-> IF self.ptr # 0 THEN "Err" ELSE "Ok",
         out    |-> IF self.ptr # 0 THEN <<Error_from_ptr(self.ptr)>> ELSE <<>>,
         drop   |-> ErrorChecker_drop(self)]

\* impl Drop for Error
Error_drop_mut_twice(e) ==
    <<EvA("rs2_free_error", 0, e.ptr, FALSE, 0),
      EvA("rs2_free_error", 0, e.ptr, FALSE, 0)>>
Error_drop(e) == <<EvA("rs2_free_error", 0, e.ptr, FALSE, 0)>>

\* the free counters after the native calls of trace tr
RECURSIVE FreedAfter(_, _)
FreedAfter(fr, tr) ==
    IF tr = <<>> THEN fr
    ELSE FreedAfter([fr EXCEPT ![Head(tr).arg] = @ + 1], Tail(tr))

\* ErrorChecker::new()
ErrorChecker_new ==
    \E id \in ErrIds :
        /\ \A c \in checkers : c.id # id
        /\ checkers' = checkers \cup {ErrorChecker_new_run(id)}
        /\ last' = Op("ErrorChecker::new", id, <<>>, "Ok", <<>>)
        /\ UNCHANGED <<build, borrowedFrom, iters, errors, nextHandle, kindOf, released,
                       devices, sensors, frames, raw, options>>

\* a native call that is given checker.inner_mut_ptr() as its error slot;
\* natErr: the call fills the slot with a new error object
NativeCallWith(c, natErr) ==
    LET p == errors.made + 1
    IN  /\ c \in checkers
        /\ c.ptr = 0
        /\ IF natErr
           THEN /\ errors.made < MaxErr
                /\ checkers' = (checkers \ {c}) \cup {[c EXCEPT !.ptr = p]}
                /\ errors' = [errors EXCEPT !.made = p]
           ELSE UNCHANGED <<checkers, errors>>
        /\ last' = Op("native call", c.id,
                      <<EvA("native call", 0, 0, natErr, IF natErr THEN p ELSE 0)>>,
                      "Ok", <<>>)
        /\ UNCHANGED <<build, borrowedFrom, iters, nextHandle, kindOf, released, devices,
                       sensors, frames, raw, options>>

\* ErrorChecker::check(mut self)
ErrorChecker_check(c) ==
    LET r == ErrorChecker_check_run(c)
    IN  /\ c \in checkers
        /\ checkers' = checkers \ {c}
        /\ errors' = [errors EXCEPT !.live = @ \cup Range(r.out)]
        /\ last' = OpN("ErrorChecker::check", c.id, c, <<>>,
                       IF r.drop = "panic" THEN "panic" ELSE r.result, r.out)
        /\ UNCHANGED <<build, borrowedFrom, iters, nextHandle, kindOf, released, devices,
                       sensors, frames, raw, options>>

\* an ErrorChecker goes out of scope
DropErrorChecker(c) ==
    /\ c \in checkers
    /\ checkers' = checkers \ {c}
    /\ last' = OpN("drop ErrorChecker", c.id, c, <<>>, ErrorChecker_drop(c), <<>>)
    /\ UNCHANGED <<build, borrowedFrom, iters, errors, nextHandle, kindOf, released,
                   devices, sensors, frames, raw, options>>

\* an Error goes out of scope
DropError(e) ==
    LET tr == Error_drop(e)
    IN  /\ e \in errors.live
        /\ errors' = [errors EXCEPT !.live = @ \ {e},
                                    !.freed = FreedAfter(@, tr)]
        /\ last' = OpN("drop Error", e.ptr, e, tr, "Ok", <<>>)
        /\ UNCHANGED <<build, borrowedFrom, iters, checkers, nextHandle, kindOf, released,
                       devices, sensors, frames, raw, options>>

\* ------------------------------------------------------------ kind enums
Enums == {"Rs2TimestampDomain", "Rs2FrameMetadata"}

\* the values of the native enumerations rs2_timestamp_domain and
\* rs2_frame_metadata_value in the order of their ordinals, from 0, without
\* the COUNT entry that ends them
NativeNames(E) ==
    IF E = "Rs2TimestampDomain"
    THEN <<"HARDWARE_CLOCK", "SYSTEM_TIME", "GLOBAL_TIME">>
    ELSE <<"FRAME_COUNTER", "FRAME_TIMESTAMP", "SENSOR_TIMESTAMP",
           "ACTUAL_EXPOSURE", "GAIN_LEVEL", "AUTO_EXPOSURE", "WHITE_BALANCE",
           "TIME_OF_ARRIVAL", "TEMPERATURE", "BACKEND_TIMESTAMP", "ACTUAL_FPS",
           "FRAME_LASER_POWER", "FRAME_LASER_POWER_MODE", "EXPOSURE_PRIORITY",
           "EXPOSURE_ROI_LEFT", "EXPOSURE_ROI_RIGHT", "EXPOSURE_ROI_TOP",
           "EXPOSURE_ROI_BOTTOM", "BRIGHTNESS", "CONTRAST", "SATURATION",
           "SHARPNESS", "AUTO_WHITE_BALANCE_TEMPERATURE",
           "BACKLIGHT_COMPENSATION", "HUE", "GAMMA", "MANUAL_WHITE_BALANCE",
           "POWER_LINE_FREQUENCY", "LOW_LIGHT_COMPENSATION",
           "FRAME_EMITTER_MODE", "FRAME_LED_POWER", "RAW_FRAME_SIZE",
           "GPIO_INPUT_DATA", "SEQUENCE_NAME", "SEQUENCE_ID", "SEQUENCE_SIZE",
           "TRIGGER", "PRESET", "INPUT_WIDTH", "INPUT_HEIGHT",
           "SUB_PRESET_INFO", "CALIB_INFO", "CRC">>

\* RS2_TIMESTAMP_DOMAIN_COUNT and RS2_FRAME_METADATA_COUNT
COUNT(E) == Len(NativeNames(E))

\* the ordinal of a native value
Ordinal(E, n) == (CHOOSE k \in 1..COUNT(E) : NativeNames(E)[k] = n) - 1

\* the variants of pub enum Rs2TimestampDomain and pub enum
\* Rs2FrameMetadata, each named by the native value that its discriminant is
Variants(E) ==
    IF E = "Rs2TimestampDomain"
    THEN {"HARDWARE_CLOCK", "SYSTEM_TIME", "GLOBAL_TIME"}
    ELSE {"FRAME_COUNTER", "FRAME_TIMESTAMP", "SENSOR_TIMESTAMP",
          "ACTUAL_EXPOSURE", "GAIN_LEVEL", "AUTO_EXPOSURE", "WHITE_BALANCE",
          "TIME_OF_ARRIVAL", "TEMPERATURE", "BACKEND_TIMESTAMP", "ACTUAL_FPS",
          "FRAME_LASER_POWER", "FRAME_LASER_POWER_MODE", "EXPOSURE_PRIORITY",
          "EXPOSURE_ROI_LEFT", "EXPOSURE_ROI_RIGHT", "EXPOSURE_ROI_TOP",
          "EXPOSURE_ROI_BOTTOM", "BRIGHTNESS", "CONTRAST", "SATURATION",
          "SHARPNESS", "AUTO_WHITE_BALANCE_TEMPERATURE",
          "BACKLIGHT_COMPENSATION", "HUE", "GAMMA", "MANUAL_WHITE_BALANCE",
          "POWER_LINE_FREQUENCY", "LOW_LIGHT_COMPENSATION",
          "FRAME_EMITTER_MODE", "FRAME_LED_POWER", "RAW_FRAME_SIZE",
          "GPIO_INPUT_DATA", "SEQUENCE_NAME", "SEQUENCE_ID", "SEQUENCE_SIZE",
          "TRIGGER", "PRESET", "INPUT_WIDTH", "INPUT_HEIGHT",
          "SUB_PRESET_INFO", "CALIB_INFO", "CRC"}

\* the traits in the #[derive(..)] list of each enum
Derives(E) ==
    IF E = "Rs2TimestampDomain"
    THEN {"FromPrimitive", "ToPrimitive", "Debug", "Clone", "Copy",
          "PartialEq", "Eq", "Hash"}
    ELSE {"Debug", "Clone", "Copy", "PartialEq", "Eq", "Hash"}

\* variant as i32: the discriminant
as_i32(E, v) == Ordinal(E, v)

\* E::from_i32(i) of the derived FromPrimitive: the variant of discriminant
\* i (<<>>: None); an enum that does not derive the trait has no conversion
from_i32(E, i) ==
    IF "FromPrimitive" \notin Derives(E)
    THEN [result |-> "not implemented", out |-> <<>>]
    ELSE [result |-> "Ok",
          out |-> IF \E v \in Variants(E) : as_i32(E, v) = i
                  THEN <<CHOOSE v \in Variants(E) : as_i32(E, v) = i>>
                  ELSE <<>>]

\* Rs2TimestampDomain::from_i32(timestamp_domain as i32).unwrap() of the
\* frame constructions
timestamp_domain_unwrap(i) ==
    LET r == from_i32("Rs2TimestampDomain", i)
    IN  IF r.out = <<>> THEN [result |-> "panic", out |-> <<>>] ELSE r

\* an operation of the kind module: no native call, no change of state
Convert(name, nat, r) ==
    /\ last' = OpN(name, 0, nat, <<>>, r.result, r.out)
    /\ UNCHANGED <<build, borrowedFrom, iters, checkers, errors, nextHandle, kindOf,
                   released, devices, sensors, frames, raw, options>>

\* Rs2TimestampDomain::from_i32(i), Rs2FrameMetadata::from_i32(i)
Enum_from_i32(E, i) == Convert("from_i32", [enum |-> E, i |-> i], from_i32(E, i))

\* variant as i32
Enum_as_i32(E, v) ==
    Convert("as i32", [enum |-> E, v |-> v],
            [result |-> "Ok", out |-> <<as_i32(E, v)>>])

\* the conversion of the timestamp domain in ImageFrame::try_from and
\* PointsFrame::try_from
Frame_timestamp_domain(i) ==
    Convert("timestamp_domain", [enum |-> "Rs2TimestampDomain", i |-> i],
            timestamp_domain_unwrap(i))

\* ---------------------------------------------------------- specifications
NoOp == Op("init", 0, <<>>, "Ok", <<>>)

\* a writable option that every query answers
DefaultOption ==
    [sup |-> "yes", ro |-> "no", getErr |-> FALSE, setErr |-> FALSE, value |-> 0]

\* nothing is constructed yet
Init ==
    /\ build = "release"
    /\ nextHandle = 0
    /\ kindOf = [h \in Handles |-> "none"]
    /\ released = [h \in Handles |-> 0]
    /\ devices = {}
    /\ sensors = {}
    /\ frames = {}
    /\ raw = {}
    /\ options = [o \in Options |-> DefaultOption]
    /\ borrowedFrom = [h \in Handles |-> 0]
    /\ iters = {}
    /\ checkers = {}
    /\ errors = NoErrors
    /\ last = NoOp

\* the answers of a native frame whose size is consistent
GoodImage ==
    [failAt |-> 0, width |-> 1, height |-> 1, bits_per_pixel |-> 8, size |-> 1,
     K |-> "Depth", stream_kind |-> "Depth"]

\* the answers of a native points frame
GoodPoints == [failAt |-> 0, num_points |-> 1, stream_kind |-> "Depth"]

\* the answers of an enumeration, without those that differ only in what
\* is never asked (the count and the elements after a failed query)
Asked(maxlen) ==
    {a \in ListAnswers(maxlen) :
        /\ a.queryErr => ~a.countErr
        /\ (a.queryErr \/ a.countErr) => a.len = 0}

\* lifetime of the wrappers: every construction, transfer and drop
Next ==
    \/ \E e \in BOOLEAN : Device_try_create(e)
    \/ \E d \in devices : DropDevice(d)
    \/ \E d \in devices, e \in BOOLEAN : Device_hardware_reset(d, e)
    \/ \E d \in devices, nat \in Asked(1) : Device_sensors(d, nat)
    \/ \E s \in sensors : DropSensor(s)
    \/ \E s \in sensors, e \in BOOLEAN : Sensor_device(s, e)
    \/ \E s \in sensors, nat \in Asked(1) : Sensor_stream_profiles(s, nat)
    \/ \E s \in sensors, o \in Options : Sensor_get_option(s, o)
    \/ DeliverFrame
    \/ \E rw \in raw, k \in {0, 1} :
          ImageFrame_try_from(rw, [GoodImage EXCEPT !.failAt = k])
    \/ \E rw \in raw, k \in {0, 1} :
          PointsFrame_try_from(rw, [GoodPoints EXCEPT !.failAt = k])
    \/ \E rw \in raw, k \in {0, 1} :
          LegacyDepthFrame_try_from(rw, [GoodImage EXCEPT !.failAt = k])
    \/ \E f \in frames : DropFrame(f)
    \/ \E f \in frames : Frame_get_owned_raw(f)
    \/ \E f \in frames, e \in BOOLEAN : Frame_sensor(f, e)

Spec == Init /\ [][Next]_vars

\* frame construction against everything the native library can answer,
\* in both builds, one frame at a time
InitFrame ==
    /\ build \in {"debug", "release"}
    /\ nextHandle = 0
    /\ kindOf = [h \in Handles |-> "none"]
    /\ released = [h \in Handles |-> 0]
    /\ devices = {}
    /\ sensors = {}
    /\ frames = {}
    /\ raw = {}
    /\ options = [o \in Options |-> DefaultOption]
    /\ borrowedFrom = [h \in Handles |-> 0]
    /\ iters = {}
    /\ checkers = {}
    /\ errors = NoErrors
    /\ last = NoOp

NextFrame ==
    \/ (raw = {} /\ frames = {} /\ DeliverFrame)
    \/ \E rw \in raw, nat \in ImageAnswers : ImageFrame_try_from(rw, nat)
    \/ \E rw \in raw, nat \in PointsAnswers : PointsFrame_try_from(rw, nat)
    \/ \E rw \in raw, nat \in LegacyDepthAnswers :
          LegacyDepthFrame_try_from(rw, nat)
    \/ \E f \in frames : DropFrame(f)
    \/ \E f \in frames : Frame_get_owned_raw(f)

SpecFrame == InitFrame /\ [][NextFrame]_vars

\* enumeration of sensors and stream profiles against every answer of the
\* native library, on one device
NextEnum ==
    \/ (nextHandle = 0 /\ Device_try_create(FALSE))
    \/ \E d \in devices, nat \in ListAnswers(MaxLen) : Device_sensors(d, nat)
    \/ \E s \in sensors, nat \in ListAnswers(MaxLen) :
          Sensor_stream_profiles(s, nat)
    \/ \E s \in sensors : DropSensor(s)
    \/ \E d \in devices : DropDevice(d)

SpecEnum == Init /\ [][NextEnum]_vars

\* the options of one sensor made by Sensor::try_create, in every state of
\* the native option table
InitOption ==
    /\ build = "release"
    /\ nextHandle = 1
    /\ kindOf = [h \in Handles |-> IF h = 1 THEN "sensor" ELSE "none"]
    /\ released = [h \in Handles |-> 0]
    /\ devices = {}
    /\ sensors = {[Sensor_from(1) EXCEPT !.should_drop = TRUE]}
    /\ frames = {}
    /\ raw = {}
    /\ options \in [Options -> OptionStates]
    /\ borrowedFrom = [h \in Handles |-> 0]
    /\ iters = {}
    /\ checkers = {}
    /\ errors = NoErrors
    /\ last = NoOp

NextOption ==
    \/ \E s \in sensors, o \in Options, v \in Values : Sensor_set_option(s, o, v)
    \/ \E s \in sensors, o \in Options : Sensor_get_option(s, o)
    \/ \E s \in sensors, o \in Options : Sensor_is_option_read_only(s, o)
    \/ \E o \in Options, st \in OptionStates : NativeOptionChange(o, st)
    \/ \E s \in sensors : DropSensor(s)

SpecOption == InitOption /\ [][NextOption]_vars

\* the option states that differ in what the advisory queries are answered
AdvisoryOptionStates == {st \in OptionStates : st.value = 0 /\ ~st.setErr}

\* a device, a sensor made by Sensor::try_create and a frame are constructed;
\* every answer of the native option table
InitAdvisory ==
    /\ build = "release"
    /\ nextHandle = 3
    /\ kindOf = [h \in Handles |->
                    IF h = 1 THEN "device" ELSE IF h = 2 THEN "sensor"
                    ELSE IF h = 3 THEN "frame" ELSE "none"]
    /\ released = [h \in Handles |-> 0]
    /\ devices = {Device_from(1)}
    /\ sensors = {[Sensor_from(2) EXCEPT !.should_drop = TRUE]}
    /\ \E c \in {"image", "points"} :
          frames = {[frame_ptr |-> 3, category |-> c, should_drop |-> TRUE]}
    /\ raw = {}
    /\ options \in [Options -> AdvisoryOptionStates]
    /\ borrowedFrom = [h \in Handles |-> 0]
    /\ iters = {}
    /\ checkers = {}
    /\ errors = NoErrors
    /\ last = NoOp

\* the advisory queries and Sensor::extension against every answer of the
\* native library
NextAdvisory ==
    \/ \E d \in devices, k \in Keys, a \in KeyAnswers :
          Device_supports_info(d, k, a)
    \/ \E d \in devices, k \in Keys, a \in KeyAnswers : Device_info(d, k, a)
    \/ \E d \in devices, b, e \in BOOLEAN : Device_set_real_time(d, b, e)
    \/ \E s \in sensors, k \in Keys, a \in KeyAnswers :
          Sensor_supports_info(s, k, a)
    \/ \E s \in sensors, k \in Keys, a \in KeyAnswers : Sensor_info(s, k, a)
    \/ \E s \in sensors, o \in Options : Sensor_supports_option(s, o)
    \/ \E s \in sensors, o \in Options : Sensor_get_option(s, o)
    \/ \E s \in sensors, o \in Options, e \in BOOLEAN :
          Sensor_get_option_range(s, o, e)
    \/ \E s \in sensors, o \in Options : Sensor_is_option_read_only(s, o)
    \/ \E s \in sensors, e \in BOOLEAN : Sensor_get_region_of_interest(s, e)
    \/ \E f \in frames, k \in Keys, a \in KeyAnswers :
          Frame_supports_metadata(f, k, a)
    \/ \E f \in frames, k \in Keys, a \in KeyAnswers : Frame_metadata(f, k, a)
    \/ \E s \in sensors, ans \in ExtensionAnswers : Sensor_extension(s, ans)

SpecAdvisory == InitAdvisory /\ [][NextAdvisory]_vars

\* every kind of operation in both builds: a device, its sensors, then one
\* frame handle, with all that the native library can answer about a frame
NextPanic ==
    \/ (nextHandle = 0 /\ \E e \in BOOLEAN : Device_try_create(e))
    \/ (sensors = {} /\ \E d \in devices, nat \in Asked(1) :
                            Device_sensors(d, nat))
    \/ (sensors # {} /\ frames = {} /\ raw = {} /\ DeliverFrame)
    \/ \E rw \in raw, nat \in ImageAnswers : ImageFrame_try_from(rw, nat)
    \/ \E rw \in raw, nat \in PointsAnswers : PointsFrame_try_from(rw, nat)
    \/ \E rw \in raw, nat \in LegacyDepthAnswers :
          LegacyDepthFrame_try_from(rw, nat)
    \/ \E s \in sensors, ans \in ExtensionAnswers : Sensor_extension(s, ans)
    \/ \E s \in sensors, o \in Options : Sensor_get_option(s, o)
    \/ \E s \in sensors, nat \in Asked(1) : Sensor_stream_profiles(s, nat)
    \/ \E d \in devices, k \in Keys, a \in KeyAnswers : Device_info(d, k, a)
    \/ \E f \in frames, k \in Keys, a \in KeyAnswers : Frame_metadata(f, k, a)

SpecPanic == InitFrame /\ [][NextPanic]_vars

\* the frame objects a construction returns when the native library reports
\* a geometry of which stride and data size are consistent
ConstructedFrames ==
    {[frame_ptr |-> 1, category |-> c, width |-> w, height |-> h,
      bits_per_pixel |-> b, stride |-> w * (b \div BITS_PER_BYTE),
      data_size_in_bytes |-> (w * h * b) \div BITS_PER_BYTE,
      data_len |-> (w * h * b) \div BITS_PER_BYTE, should_drop |-> TRUE] :
        c \in {"image", "legacy_depth"}, w \in 0..MaxDim, h \in 0..MaxDim,
        b \in {8, 16}}

\* one frame is constructed
InitPixel ==
    /\ build = "release"
    /\ nextHandle = 1
    /\ kindOf = [h \in Handles |-> IF h = 1 THEN "frame" ELSE "none"]
    /\ released = [h \in Handles |-> 0]
    /\ devices = {}
    /\ sensors = {}
    /\ \E f \in ConstructedFrames : frames = {f}
    /\ raw = {}
    /\ options = [o \in Options |-> DefaultOption]
    /\ borrowedFrom = [h \in Handles |-> 0]
    /\ iters = {}
    /\ checkers = {}
    /\ errors = NoErrors
    /\ last = NoOp

\* pixel access at every column and row, inside and outside of the frame
NextPixel ==
    \/ \E f \in frames, col, row \in 0..(MaxDim + 1) : ImageFrame_get(f, col, row)
    \/ \E f \in frames, col, row \in 0..(MaxDim + 1) :
          LegacyDepthFrame_at(f, col, row)

SpecPixel == InitPixel /\ [][NextPixel]_vars

\* the answers about an image frame of every width and height, and about
\* a frame of every type ImageFrame<K> of a stream of every kind
ViewImages ==
    {a \in ImageAnswers :
        /\ a.failAt = 0
        /\ a.bits_per_pixel = 8
        /\ a.size = a.width * a.height}
    \cup {[GoodImage EXCEPT !.K = k, !.stream_kind = s] :
             k \in ImageKinds, s \in StreamKinds}

\* the answers about a points frame of every point count, and of a stream
\* of every kind
ViewPoints ==
    PointsAnswers \cup {[GoodPoints EXCEPT !.stream_kind = s] : s \in StreamKinds}

\* the views and cached fields of one constructed frame at a time; an
\* iterator borrows its frame, which therefore outlives it
NextView ==
    \/ (raw = {} /\ frames = {} /\ DeliverFrame)
    \/ \E rw \in raw, nat \in ViewPoints : PointsFrame_try_from(rw, nat)
    \/ \E f \in frames : Frame_has_correct_kind(f)
    \/ \E f \in frames : PointsFrame_vertices(f)
    \/ \E f \in frames : PointsFrame_texture_coordinates(f)
    \/ \E f \in frames : PointsFrame_points_count(f)
    \/ \E rw \in raw, nat \in ViewImages : ImageFrame_try_from(rw, nat)
    \/ (iters = {} /\ \E f \in frames : ImageFrame_iter(f))
    \/ \E it \in iters : Iter_next(it)
    \/ \E it \in iters : DropIter(it)
    \/ (iters = {} /\ \E f \in frames : Frame_get_owned_raw(f))
    \/ (iters = {} /\ \E f \in frames : DropFrame(f))

SpecView == InitFrame /\ [][NextView]_vars

\* the error checkers and the errors they return
NextError ==
    \/ ErrorChecker_new
    \/ \E c \in checkers, e \in BOOLEAN : NativeCallWith(c, e)
    \/ \E c \in checkers : ErrorChecker_check(c)
    \/ \E c \in checkers : DropErrorChecker(c)
    \/ \E e \in errors.live : DropError(e)

SpecError == Init /\ [][NextError]_vars

\* the conversions between native ordinals and enumerated keys, at every
\* ordinal of the native range and one on each side of it
NextKind ==
    \/ \E E \in Enums : \E i \in (0 - 1)..COUNT(E) : Enum_from_i32(E, i)
    \/ \E E \in Enums : \E v \in Variants(E) : Enum_as_i32(E, v)
    \/ \E i \in (0 - 1)..COUNT("Rs2TimestampDomain") : Frame_timestamp_domain(i)

SpecKind == Init /\ [][NextKind]_vars

\* ------------------------------------------------------------------ claims
\* the wrapper of handle h is live
LiveSensor(h) == \E s \in sensors : s.sensor_ptr = h

\* the positions of trace tr that are calls of a function in calls
Positions(tr, calls) == {i \in 1..Len(tr) : tr[i].call \in calls}

\* C1: whatever wrappers are constructed, transferred and dropped, every
\* native handle is passed to its release function at most once
C1_ReleasedAtMostOnce == \A h \in Handles : released[h] <= 1

\* a device, a sensor and a frame have all been released
C1_Witness ==
    \E d, s, f \in Handles :
        /\ kindOf[d] = "device" /\ released[d] = 1
        /\ kindOf[s] = "sensor" /\ released[s] = 1
        /\ kindOf[f] = "frame" /\ released[f] = 1

\* C2: get_owned_raw makes no native release call, and the handle it hands
\* out is unreleased for as long as the caller holds it bare
C2_TransferDoesNotRelease ==
    /\ last.op = "get_owned_raw" =>
          Positions(last.trace, {"rs2_release_frame"}) = {}
    /\ \A r \in raw : r.origin = "get_owned_raw" => released[r.frame_ptr] = 0

\* a handle has just been handed out by get_owned_raw
C2_Witness ==
    /\ last.op = "get_owned_raw"
    /\ [frame_ptr |-> last.self, origin |-> "get_owned_raw"] \in raw

\* C3: the handle of a Sensor made by Sensor::try_create is deleted exactly
\* once, by the drop of its wrapper (never while the wrapper lives); the
\* handle of a Sensor made by Sensor::from is never deleted
C3_SensorOwnership ==
    /\ \A h \in Handles :
          /\ kindOf[h] = "sensor" =>
                released[h] = (IF LiveSensor(h) THEN 0 ELSE 1)
          /\ kindOf[h] = "frame_sensor" => released[h] = 0
    /\ last.op = "drop Sensor" =>
          last.trace = (IF kindOf[last.self] = "sensor"
                        THEN <<Ev("rs2_delete_sensor", last.self, FALSE)>>
                        ELSE <<>>)

\* a Sensor made by Sensor::try_create has been used and then dropped
C3_Witness ==
    /\ last.op = "drop Sensor"
    /\ kindOf[last.self] = "sensor"
    /\ released[last.self] = 1
    /\ \E d \in devices : d.device_ptr > last.self

\* the calls of trace tr that filled the error out-parameter
Failing(tr) == {i \in 1..Len(tr) : tr[i].err}

FirstFailing(tr) == CHOOSE i \in Failing(tr) : \A j \in Failing(tr) : i <= j

\* C4: ImageFrame::try_from and PointsFrame::try_from return a frame only
\* if no query reported an error; at the first query that does they return
\* a construction error, issue no further native query and yield no frame
C4_AtomicConstruction ==
    last.op \in {"ImageFrame::try_from", "PointsFrame::try_from"} =>
        /\ last.result = "Ok" => Failing(last.trace) = {}
        /\ Failing(last.trace) # {} =>
              /\ last.result \notin {"Ok", "panic"}
              /\ last.out = <<>>
              /\ \A j \in 1..Len(last.trace) :
                    j > FirstFailing(last.trace) =>
                        last.trace[j].call = "rs2_free_error"
              /\ \A f \in frames : f.frame_ptr # last.self
        /\ last.result # "Ok" =>
              /\ last.out = <<>>
              /\ \A f \in frames : f.frame_ptr # last.self

\* an image frame construction failed in the middle, at the timestamp query
C4_Witness ==
    /\ last.op = "ImageFrame::try_from"
    /\ Failing(last.trace) = {5}
    /\ last.result = "CouldNotGetTimestamp"

\* width * height * bits_per_pixel / 8 of a frame object
ExpectedSize(f) == (f.width * f.height * f.bits_per_pixel) \div BITS_PER_BYTE

\* C5 as stated: every image frame that construction returns has data size
\* = width * height * bits_per_pixel / 8, whatever the native library reports
C5_SizeConsistent ==
    /\ (last.op = "ImageFrame::try_from" /\ last.result = "Ok") =>
          last.out.data_size_in_bytes = ExpectedSize(last.out)
    /\ (last.op = "legacy DepthFrame::try_from" /\ last.result = "Ok") =>
          last.out.data_len = ExpectedSize(last.out)

\* C5 amended: in a build with debug assertions every frame that
\* ImageFrame::try_from returns has data size = width * height *
\* bits_per_pixel / 8 (a mismatch panics, no frame is returned); a release
\* build keeps the size the native library reported
C5_SizeConsistentInDebug ==
    (last.op = "ImageFrame::try_from" /\ last.result = "Ok") =>
        /\ last.out.data_size_in_bytes = last.nat.size
        /\ build = "debug" =>
              last.out.data_size_in_bytes = ExpectedSize(last.out)

\* a debug build returned a 2 x 2 image frame
C5_Witness ==
    /\ build = "debug"
    /\ last.op = "ImageFrame::try_from"
    /\ last.result = "Ok"
    /\ last.out.width = 2 /\ last.out.height = 2

\* C6: every error object a native call filled is released by exactly one
\* rs2_free_error before the operation returns
C6_ErrorsFreedOnce ==
    \A i \in Failing(last.trace) :
        Cardinality({j \in Positions(last.trace, {"rs2_free_error"}) :
                        last.trace[j].of = i}) = 1

ListQueries == {"rs2_query_sensors", "rs2_get_stream_profiles"}
ListDeletes == {"rs2_delete_sensor_list", "rs2_delete_stream_profiles_list"}
ListCreates == {"rs2_create_sensor", "rs2_get_stream_profile"}

\* C7: in Device::sensors and Sensor::stream_profiles, when the list query
\* succeeded the list is released exactly once, as the last native call of
\* the operation, so that no element is created from it afterwards; when
\* the query failed there is no list and nothing is released
C7_ListReleasedOnce ==
    last.op \in {"Device::sensors", "Sensor::stream_profiles"} =>
        LET tr == last.trace
            dels == Positions(tr, ListDeletes)
        IN  /\ tr[1].call \in ListQueries
            /\ IF tr[1].err THEN dels = {}
               ELSE /\ Cardinality(dels) = 1
                    /\ dels = {Len(tr)}
                    /\ \A i \in Positions(tr, ListCreates) :
                          \A j \in dels : i < j

\* the count query of Device::sensors failed after the list was obtained
C7_Witness ==
    /\ last.op = "Device::sensors"
    /\ ~last.nat.queryErr
    /\ last.nat.countErr
    /\ Positions(last.trace, ListDeletes) # {}

\* the indexes of the elements whose creation succeeds, in index order
Expected(nat) ==
    SelectSeq([i \in 1..nat.len |-> i - 1], LAMBDA i : ~nat.elemErr[i + 1])

\* the index from which the k-th element of the result was created
IndexOf(k) ==
    IF last.op = "Device::sensors"
    THEN LET i == CHOOSE i \in 1..Len(last.trace) :
                      last.trace[i].ret = last.out[k].sensor_ptr
         IN  last.trace[i].arg
    ELSE last.out[k].index

CallsOn(tr, h) == {i \in 1..Len(tr) : tr[i].h = h}

\* C9: Device::hardware_reset issues exactly one native reset call and then
\* releases the device handle exactly once, its wrapper is gone, and no
\* operation issues a native call on a device handle that was released
C9_ResetConsumes ==
    [][/\ last'.op = "Device::hardware_reset" =>
            LET h == last'.self
                tr == last'.trace
            IN  /\ Cardinality(Positions(tr, {"rs2_hardware_reset"})) = 1
                /\ tr[1] = Ev("rs2_hardware_reset", h, tr[1].err)
                /\ Positions(tr, {"rs2_delete_device"}) = {2}
                /\ tr[2].h = h
                /\ released[h] = 0 /\ released'[h] = 1
                /\ Device_from(h) \notin devices'
       /\ \A h \in Handles :
            (kindOf[h] = "device" /\ released[h] >= 1) =>
                /\ CallsOn(last'.trace, h) = {}
                /\ released'[h] = released[h]
                /\ Device_from(h) \notin devices'
      ]_vars

\* a device was reset and its handle released
C9_Witness ==
    /\ last.op = "Device::hardware_reset"
    /\ released[last.self] = 1
    /\ last.trace[1].err

C11_SetOptionPrecedence ==
    last.op = "Sensor::set_option" =>
        LET st   == options[last.nat.option]
            tr   == last.trace
            sets == Positions(tr, {"rs2_set_option"})
        IN  /\ tr[1].call = "rs2_supports_option"
            /\ IF st.sup # "yes"
               THEN last.result = "OptionNotSupported" /\ sets = {}
               ELSE IF st.ro = "yes"
               THEN last.result = "OptionIsReadOnly" /\ sets = {}
               ELSE /\ Cardinality(sets) = 1
                    /\ \A i \in sets :
                          /\ tr[i].arg = last.nat.option
                          /\ tr[i].err = st.setErr
                          /\ last.result = (IF tr[i].err THEN "CouldNotSetOption"
                                            ELSE "Ok")
                          /\ \A j \in Positions(tr, {"rs2_is_option_read_only"}) :
                                j < i

\* the read-only query of a supported option reported an error, the native
\* set call was issued and failed
C11_Witness ==
    /\ last.op = "Sensor::set_option"
    /\ options[last.nat.option].sup = "yes"
    /\ options[last.nat.option].ro = "err"
    /\ last.result = "CouldNotSetOption"
    /\ Cardinality(Positions(last.trace, {"rs2_set_option"})) = 1

SupportsOps ==
    {"Device::supports_info", "Sensor::supports_info", "Sensor::supports_option",
     "Frame::supports_metadata"}
GetterOps ==
    {"Device::info", "Sensor::info", "Sensor::get_option",
     "Sensor::get_option_range", "Frame::metadata"}
OptionOps ==
    {"Sensor::supports_option", "Sensor::get_option", "Sensor::get_option_range",
     "Sensor::is_option_read_only"}
GetCalls ==
    {"rs2_get_device_info", "rs2_get_sensor_info", "rs2_get_option",
     "rs2_get_option_range", "rs2_get_frame_metadata"}

\* what the native support query answers for the key of the last operation
NativeSupport ==
    IF last.op \in OptionOps THEN options[last.nat.option].sup ELSE last.nat.sup

\* whether the native get call of the last operation fails
NativeGetErr ==
    IF last.op = "Sensor::get_option" THEN options[last.nat.option].getErr
    ELSE last.nat.getErr

\* C12: for an option, camera-info or frame-metadata key that the native
\* object does not support, supports_option, supports_info and
\* supports_metadata return false, and get_option, get_option_range, info
\* and metadata return absent without issuing the native get call
C12_UnsupportedIsAbsent ==
    /\ (last.op \in SupportsOps /\ NativeSupport = "no") =>
          last.out = <<FALSE>>
    /\ (last.op \in GetterOps /\ NativeSupport = "no") =>
          /\ last.out = <<>>
          /\ Positions(last.trace, GetCalls) = {}
          /\ Len(last.trace) = 1

\* metadata was asked for a key the frame does not support
C12_Witness ==
    /\ last.op = "Frame::metadata"
    /\ last.nat.sup = "no"
    /\ last.out = <<>>

AdvisoryOps ==
    SupportsOps \cup GetterOps \cup
    {"Sensor::is_option_read_only", "Sensor::get_region_of_interest",
     "Device::set_real_time"}

\* C13: when the key is supported but the native call reports an error, the
\* advisory operations swallow it: info, get_option, get_option_range,
\* get_region_of_interest and metadata return absent; supports_info,
\* supports_option, supports_metadata, is_option_read_only and set_real_time
\* return false; none surfaces an error or panics, and the error is released
C13_NativeErrorsSwallowed ==
    last.op \in AdvisoryOps =>
        /\ last.result = "Ok"
        /\ (last.op \in GetterOps /\ NativeSupport = "yes" /\ NativeGetErr) =>
              last.out = <<>>
        /\ (last.op = "Sensor::get_region_of_interest" /\ last.nat.getErr) =>
              last.out = <<>>
        /\ (last.op \in SupportsOps /\ NativeSupport = "err") =>
              last.out = <<FALSE>>
        /\ (/\ last.op = "Sensor::is_option_read_only"
            /\ NativeSupport = "yes"
            /\ options[last.nat.option].ro = "err") => last.out = <<FALSE>>
        /\ (last.op = "Device::set_real_time" /\ last.nat.getErr) =>
              last.out = <<FALSE>>
        /\ \A i \in Failing(last.trace) :
              /\ i < Len(last.trace)
              /\ last.trace[i + 1] = FreeError(i)

\* the range of a supported option was asked and the native call failed
C13_Witness ==
    /\ last.op = "Sensor::get_option_range"
    /\ NativeSupport = "yes"
    /\ last.nat.getErr
    /\ last.out = <<>>
    /\ Len(last.trace) = 3

Calls(tr) ==
    LET q == SelectSeq(tr, LAMBDA e : e.call # "rs2_free_error")
    IN  [i \in 1..Len(q) |-> q[i].call]

IsPrefix(s, t) == Len(s) <= Len(t) /\ \A i \in 1..Len(s) : s[i] = t[i]

\* the first position of call c in the sequence of calls s (0: none)
FirstAt(s, c) ==
    IF \E i \in 1..Len(s) : s[i] = c
    THEN CHOOSE i \in 1..Len(s) : s[i] = c /\ \A j \in 1..(i - 1) : s[j] # c
    ELSE 0

TimingCalls ==
    {"rs2_get_frame_timestamp", "rs2_get_frame_timestamp_domain",
     "rs2_get_frame_number"}

PointsOrder ==
    <<"rs2_get_frame_timestamp", "rs2_get_frame_timestamp_domain",
      "rs2_get_frame_number", "rs2_get_frame_stream_profile",
      "rs2_get_stream_profile_data", "rs2_get_frame_points_count",
      "rs2_get_frame_vertices", "rs2_get_frame_texture_coordinates">>

ImageOrder ==
    <<"rs2_get_frame_width", "rs2_get_frame_height",
      "rs2_get_frame_bits_per_pixel", "rs2_get_frame_stride_in_bytes",
      "rs2_get_frame_timestamp", "rs2_get_frame_timestamp_domain",
      "rs2_get_frame_number", "rs2_get_frame_stream_profile",
      "rs2_get_stream_profile_data", "rs2_get_frame_data_size",
      "rs2_get_frame_data">>

LegacyDepthOrder ==
    <<"rs2_get_frame_width", "rs2_get_frame_height",
      "rs2_get_frame_bits_per_pixel", "rs2_get_frame_stride_in_bytes",
      "rs2_get_frame_stream_profile", "rs2_get_stream_profile_data",
      "rs2_get_frame_data_size", "rs2_get_frame_data">>

\* the order a construction follows
OrderOf(op) ==
    IF op = "ImageFrame::try_from" THEN ImageOrder
    ELSE IF op = "PointsFrame::try_from" THEN PointsOrder
    ELSE LegacyDepthOrder

ImageFields ==
    <<"width", "height", "bits per pixel", "stride", "timestamp",
      "timestamp domain", "frame number", "stream profile", "stream profile",
      "data size", "data">>

PointsFields ==
    <<"timestamp", "timestamp domain", "frame number", "stream profile",
      "stream profile", "point count", "vertex data", "texture data">>

FieldsOf(op) == IF op = "ImageFrame::try_from" THEN ImageFields ELSE PointsFields

\* the kinds of FrameConstructionError that name field fld (a failure while
\* the stream profile is constructed from its handle is the error of that
\* construction)
KindsOf(op, fld) ==
    IF fld = "width" THEN {"CouldNotGetWidth"}
    ELSE IF fld = "height" THEN {"CouldNotGetHeight"}
    ELSE IF fld = "bits per pixel" THEN {"CouldNotGetBitsPerPixel"}
    ELSE IF fld = "stride" THEN {"CouldNotGetStride"}
    ELSE IF fld = "timestamp" THEN {"CouldNotGetTimestamp"}
    ELSE IF fld = "timestamp domain" THEN {"CouldNotGetTimestampDomain"}
    ELSE IF fld = "frame number" THEN {"CouldNotGetFrameNumber"}
    ELSE IF fld = "stream profile"
    THEN {"CouldNotGetFrameStreamProfile", "StreamProfileConstructionError"}
    ELSE IF fld = "data size" THEN {"CouldNotGetDataSize"}
    ELSE IF fld = "point count" THEN {"CouldNotGetPointCount"}
    ELSE {"CouldNotGetData"}

\* the query of the construction that failed
FailedQuery == Len(Calls(last.trace))

\* C16 as stated: when a query of frame construction reports an error, the
\* kind of the error returned identifies the field whose query failed (no
\* other field fails with that kind) and the error carries the native message
C16_KindIdentifiesField ==
    (/\ last.op \in {"ImageFrame::try_from", "PointsFrame::try_from"}
     /\ Failing(last.trace) # {}) =>
        /\ last.result \in KindsOf(last.op, FieldsOf(last.op)[FailedQuery])
        /\ \A j \in 1..Len(FieldsOf(last.op)) :
              last.result \in KindsOf(last.op, FieldsOf(last.op)[j]) =>
                  FieldsOf(last.op)[j] = FieldsOf(last.op)[FailedQuery]
        /\ last.msg = FirstFailing(last.trace)

\* C16 amended: the kind of the construction error identifies the field
\* whose query failed, except that the vertex pointer and the texture
\* pointer of a points frame both fail with CouldNotGetData; the error
\* carries the message of the error object that query filled
C16_KindIdentifiesFieldButData ==
    (/\ last.op \in {"ImageFrame::try_from", "PointsFrame::try_from"}
     /\ Failing(last.trace) # {}) =>
        /\ last.result \in KindsOf(last.op, FieldsOf(last.op)[FailedQuery])
        /\ \A j \in 1..Len(FieldsOf(last.op)) :
              last.result \in KindsOf(last.op, FieldsOf(last.op)[j]) =>
                  \/ FieldsOf(last.op)[j] = FieldsOf(last.op)[FailedQuery]
                  \/ /\ last.result = "CouldNotGetData"
                     /\ {FieldsOf(last.op)[j], FieldsOf(last.op)[FailedQuery]}
                            = {"vertex data", "texture data"}
        /\ last.msg = FirstFailing(last.trace)
        /\ Failing(last.trace) = {FirstFailing(last.trace)}

\* the point count query of a points frame failed
C16_Witness ==
    /\ last.op = "PointsFrame::try_from"
    /\ last.result = "CouldNotGetPointCount"
    /\ last.msg = 6

\* the handle of a Device wrapper is live
LiveDevice(h) == Device_from(h) \in devices

\* every Device wrapper owns its handle: the handle is unreleased while the
\* wrapper lives, and the drop of the wrapper is one rs2_delete_device on it
DeviceOwnsHandle ==
    /\ \A h \in Handles :
          kindOf'[h] = "device" =>
              released'[h] = (IF LiveDevice(h)' THEN 0 ELSE 1)
    /\ last'.op = "drop Device" =>
          /\ last'.trace = <<Ev("rs2_delete_device", last'.self, FALSE)>>
          /\ released[last'.self] = 0
          /\ released'[last'.self] = 1

\* C17 as stated: a Device wrapper is created only by Device::try_create,
\* and every Device wrapper owns its handle: dropping it calls
\* rs2_delete_device on that handle exactly once
C17_DeviceOnlyFromList ==
    [][/\ devices' \ devices # {} => last'.op = "Device::try_create"
       /\ DeviceOwnsHandle]_vars

\* C17 amended: a Device wrapper is created by Device::try_create from a
\* device list or by Sensor::device from a sensor, each time on a handle the
\* native library has just created, and every Device wrapper owns its
\* handle: dropping it calls rs2_delete_device on that handle exactly once
C17_DeviceFromListOrSensor ==
    [][/\ \A d \in devices' \ devices :
            /\ last'.op \in {"Device::try_create", "Sensor::device"}
            /\ last'.result = "Ok"
            /\ last'.trace[1].call =
                  (IF last'.op = "Device::try_create" THEN "rs2_create_device"
                   ELSE "rs2_create_device_from_sensor")
            /\ last'.trace[1].ret = d.device_ptr
            /\ kindOf[d.device_ptr] = "none"
       /\ DeviceOwnsHandle]_vars

\* Sensor::device has made a Device after another Device was dropped
C17_Witness ==
    /\ last.op = "Sensor::device"
    /\ last.result = "Ok"
    /\ LiveDevice(last.out[1])
    /\ \E h \in Handles : kindOf[h] = "device" /\ released[h] = 1

ConstructionOps ==
    {"ImageFrame::try_from", "PointsFrame::try_from",
     "legacy DepthFrame::try_from"}

\* C18: the ownership flag of a wrapper is fixed at construction (frames:
\* true; Sensor: true from Sensor::try_create, false from Sensor::from) and
\* no operation changes the flag of a wrapper that stays alive; get_owned_raw
\* alone clears it, on the wrapper it consumes, whose drop then makes no
\* release call; no flag goes from false to true
C18_OwnershipFlagFixed ==
    [][/\ \A s \in sensors' :
            IF \E s0 \in sensors : s0.sensor_ptr = s.sensor_ptr
            THEN s \in sensors
            ELSE /\ last'.op \in {"Device::sensors", "Frame::sensor"}
                 /\ s.should_drop = (last'.op = "Device::sensors")
       /\ \A f \in frames' :
            IF \E f0 \in frames : f0.frame_ptr = f.frame_ptr
            THEN f \in frames
            ELSE /\ last'.op \in ConstructionOps
                 /\ f.should_drop
       /\ last'.op = "get_owned_raw" =>
            /\ \E f0 \in frames : f0.frame_ptr = last'.self /\ f0.should_drop
            /\ \A f \in frames' : f.frame_ptr # last'.self
            /\ last'.trace = <<>>
            /\ released' = released
       /\ last'.op = "drop frame" =>
            last'.trace = <<Ev("rs2_release_frame", last'.self, FALSE)>>
      ]_vars

\* get_owned_raw has consumed a frame while a Sensor made by Sensor::from
\* lives
C18_Witness ==
    /\ last.op = "get_owned_raw"
    /\ \E s \in sensors : ~s.should_drop
    /\ \E r \in raw : r.frame_ptr = last.self /\ r.origin = "get_owned_raw"

\* the positions of the allowlist whose tag the native library answers yes to
Matching(ans) == {i \in 1..Len(SENSOR_EXTENSIONS) : ans[i] = "yes"}

\* C19: Sensor::extension returns a tag of the SENSOR_EXTENSIONS allowlist
\* for which the is-extendable-to query answered yes without error (the
\* first such tag of the allowlist), and panics when no tag of the allowlist
\* does; a query that reports an error counts as a no and its error object
\* is released
C19_ExtensionFromAllowlist ==
    last.op = "Sensor::extension" =>
        LET tr == last.trace
            qs == Positions(tr, {"rs2_is_sensor_extendable_to"})
        IN  /\ IF Matching(last.nat) = {}
               THEN /\ last.result = "panic"
                    /\ last.out = <<>>
                    /\ Cardinality(qs) = Len(SENSOR_EXTENSIONS)
               ELSE /\ last.result = "Ok"
                    /\ \E i \in Matching(last.nat) :
                          /\ last.out = <<SENSOR_EXTENSIONS[i]>>
                          /\ \A j \in Matching(last.nat) : i <= j
                          /\ Cardinality(qs) = i
                          /\ \E q \in qs :
                                /\ tr[q].arg = SENSOR_EXTENSIONS[i]
                                /\ ~tr[q].err
            /\ \A q \in qs : tr[q].h = last.self
            /\ \A q \in Failing(tr) :
                  /\ q < Len(tr)
                  /\ tr[q + 1] = FreeError(q)

\* the query of the first tag reported an error and a later tag was returned
C19_Witness ==
    /\ last.op = "Sensor::extension"
    /\ last.nat[1] = "err"
    /\ last.result = "Ok"
    /\ last.out = <<SENSOR_EXTENSIONS[2]>>

\* the pixel (col, row) lies outside of a frame of the geometry in nat
OutOfBounds(nat) == nat.col >= nat.width \/ nat.row >= nat.height

PointsViews == {"PointsFrame::vertices", "PointsFrame::texture_coordinates"}

\* C21: for every constructed PointsFrame, vertices() and
\* texture_coordinates() have length points_count(), and points_count() is
\* the point count the native library reported at construction
C21_ViewsHavePointCount ==
    /\ \A f \in frames :
          f.category = "points" =>
             /\ vertices(f).len = points_count(f)
             /\ texture_coordinates(f).len = points_count(f)
    /\ (last.op = "PointsFrame::try_from" /\ last.result = "Ok") =>
          /\ points_count(last.out) = last.nat.num_points
          /\ last.out \in frames
    /\ last.op \in PointsViews =>
          last.out[1].len = FrameOf(last.self).num_points
    /\ last.op = "PointsFrame::points_count" =>
          last.out[1] = FrameOf(last.self).num_points

\* vertices() was called on a frame of several points
C21_Witness ==
    /\ last.op = "PointsFrame::vertices"
    /\ last.out[1].len >= 2
    /\ points_count(FrameOf(last.self)) = last.out[1].len

\* C22: iterating an ImageFrame visits every (col, row) with col < width
\* and row < height exactly once in row-major order: the k-th call of next
\* yields the pixel (k mod width, k div width) while k < width * height and
\* None from then on (at once when width or height is 0), and get_unchecked
\* is only called inside of the frame
C22_RowMajorIteration ==
    /\ \A it \in iters :
          LET f == FrameOf(it.frame)
          IN  /\ it.yielded <= f.width * f.height
              /\ f.width > 0 =>
                    /\ it.column = it.yielded % f.width
                    /\ it.row = it.yielded \div f.width
    /\ last.op = "Iter::next" =>
          LET k == last.nat.it.yielded
              w == last.nat.width
              h == last.nat.height
              f == FrameOf(last.self)
          IN  IF k < w * h
              THEN /\ last.out = <<get_unchecked(f, k % w, k \div w)>>
                   /\ last.out[1].col < w
                   /\ last.out[1].row < h
              ELSE last.out = <<>>

\* the last pixel of a frame of several rows and columns was yielded
C22_Witness ==
    /\ last.op = "Iter::next"
    /\ last.nat.width >= 2
    /\ last.nat.height >= 2
    /\ last.nat.it.yielded = last.nat.width * last.nat.height - 1
    /\ last.out # <<>>
    /\ last.out[1].col = last.nat.width - 1
    /\ last.out[1].row = last.nat.height - 1

\* C23: dropping an ErrorChecker on which check() was never called panics;
\* check() returns Ok exactly when the error slot is still null and
\* otherwise an Error that owns the error object, which the drop of that
\* Error releases exactly once
C23_CheckBeforeDrop ==
    /\ last.op = "drop ErrorChecker" =>
          (last.result = "panic" <=> ~last.nat.checked)
    /\ last.op = "ErrorChecker::check" =>
          /\ last.result \in {"Ok", "Err"}
          /\ last.result = "Ok" <=> last.nat.ptr = 0
          /\ last.nat.ptr # 0 =>
                /\ last.out = <<[ptr |-> last.nat.ptr]>>
                /\ [ptr |-> last.nat.ptr] \in errors.live
                /\ errors.freed[last.nat.ptr] = 0
    /\ last.op = "drop Error" =>
          /\ errors.freed[last.self] = 1
          /\ \A e \in errors.live : e.ptr # last.self
    /\ \A x \in ErrIds :
          /\ errors.freed[x] <= 1
          /\ errors.freed[x] = 1 => \A e \in errors.live : e.ptr # x

\* an Error that check() returned was dropped, and a checker that was not
\* checked is still live
C23_Witness ==
    /\ last.op = "drop Error"
    /\ errors.freed[last.self] = 1
    /\ \E c \in checkers : ~c.checked

\* the stream kind that the claim gives for each frame category
CategoryKind(f) ==
    IF f.category = "points" THEN "Any"
    ELSE CASE f.K = "Color" -> "Color"
           [] f.K = "Depth" -> "Depth"
           [] f.K = "Infrared" -> "Infrared"
           [] f.K = "Fisheye" -> "Fisheye"
           [] f.K = "Confidence" -> "Confidence"
           [] f.K = "Disparity" -> "Any"

\* C24: has_correct_kind() is true exactly when the kind of the frame's
\* stream profile equals the kind() of its category: Color, Depth,
\* Infrared, Fisheye and Confidence for those image categories, Any for
\* Disparity and Points
C24_CorrectKind ==
    last.op = "has_correct_kind" =>
        LET f == FrameOf(last.self)
        IN  last.out[1] = (f.stream_kind = CategoryKind(f))

\* a disparity frame of a depth stream does not have the correct kind
C24_Witness ==
    /\ last.op = "has_correct_kind"
    /\ FrameOf(last.self).category = "image"
    /\ FrameOf(last.self).K = "Disparity"
    /\ FrameOf(last.self).stream_kind = "Depth"
    /\ last.out = <<FALSE>>

\* C25: the conversion from a native ordinal to an enumerated key is total
\* on the native range: for every i with 0 <= i < COUNT,
\* Rs2TimestampDomain::from_i32(i) and Rs2FrameMetadata::from_i32(i) return
\* a variant, and the conversion of the timestamp domain in a frame
\* construction does not fail
C25_ConversionTotal ==
    /\ (/\ last.op = "from_i32"
        /\ last.nat.i >= 0
        /\ last.nat.i < COUNT(last.nat.enum)) =>
          /\ last.result = "Ok"
          /\ Len(last.out) = 1
    /\ (/\ last.op = "timestamp_domain"
        /\ last.nat.i >= 0
        /\ last.nat.i < COUNT("Rs2TimestampDomain")) =>
          /\ last.result = "Ok"
          /\ Len(last.out) = 1

\* the release calls on handle h among the first n native calls of trace tr
ReleasesIn(tr, n, h) ==
    Cardinality({j \in 1..n : tr[j].call \in ReleaseCalls /\ tr[j].h = h})

\* the release calls that this layer had made on handle h when the last
\* operation issued its i-th native call
ReleasedAt(i, h) ==
    released[h] - ReleasesIn(last.trace, Len(last.trace), h)
        + ReleasesIn(last.trace, i - 1, h)

\* C26: no native call is issued on a handle after this layer has released
\* it, nor on the handle of a borrowed Sensor that a frame's sensor()
\* returned after that frame was dropped and its handle released
C26_NoUseAfterRelease ==
    \A i \in 1..Len(last.trace) :
        LET e == last.trace[i]
        IN  e.h \in Handles =>
               /\ ReleasedAt(i, e.h) = 0
               /\ borrowedFrom[e.h] # 0 => ReleasedAt(i, borrowedFrom[e.h]) = 0

FrameConstructions == {"ImageFrame::try_from", "PointsFrame::try_from"}

\* the native library answers the queries of a construction with the
\* values that frame f has cached
SameAnswers(nat, f) ==
    IF f.category = "image"
    THEN /\ nat.width = f.width
         /\ nat.height = f.height
         /\ nat.bits_per_pixel = f.bits_per_pixel
         /\ nat.size = f.data_size_in_bytes
         /\ nat.stream_kind = f.stream_kind
    ELSE /\ nat.num_points = f.num_points
         /\ nat.stream_kind = f.stream_kind

\* a frame was constructed from a handle that get_owned_raw handed out
Reconstructed ==
    /\ last.op \in FrameConstructions
    /\ last.origin = "get_owned_raw"
    /\ last.result = "Ok"

\* C27: get_owned_raw followed by the construction of a frame of the same
\* type from the handle yields a frame with the cached fields of the
\* original (the native library answering as before), and through the
\* transfer, the end of the old wrapper, the construction and the drop of
\* the new wrapper the handle is released exactly once, by the new wrapper
C27_TransferRoundTrip ==
    [][/\ last'.op = "get_owned_raw" =>
             /\ released'[last'.self] = 0
             /\ last'.nat \in frames
             /\ last'.nat \notin frames'
       /\ (/\ last.op = "get_owned_raw"
           /\ last'.op \in FrameConstructions
           /\ last'.self = last.self) =>
             /\ last'.origin = "get_owned_raw"
             /\ released'[last'.self] = 0
             /\ (/\ last'.result = "Ok"
                 /\ (last'.op = "ImageFrame::try_from") = (last.nat.category = "image")
                 /\ last.nat.category = "image" => last'.nat.K = last.nat.K
                 /\ SameAnswers(last'.nat, last.nat)) =>
                   /\ last'.out = last.nat
                   /\ last'.out \in frames'
       /\ (Reconstructed /\ last'.op = "drop frame" /\ last'.self = last.self) =>
             /\ released[last.self] = 0
             /\ released'[last.self] = 1
             /\ Len(last'.trace) = 1
      ]_vars

\* a frame of several pixels was constructed from a handle that
\* get_owned_raw handed out, and the handle is not released
C27_Witness ==
    /\ Reconstructed
    /\ last.out.category = "image"
    /\ last.out.width = 2
    /\ last.out \in frames
    /\ released[last.self] = 0

\* C28: when ImageFrame::try_from or PointsFrame::try_from fails at any
\* step, this layer makes no release call on the frame handle: the handle
\* is unreleased and still with the caller, and no wrapper holds it
C28_FailureLeavesHandle ==
    (last.op \in FrameConstructions /\ last.result # "Ok") =>
        /\ \A i \in 1..Len(last.trace) : last.trace[i].call \notin ReleaseCalls
        /\ released[last.self] = 0
        /\ [frame_ptr |-> last.self, origin |-> last.origin] \in raw
        /\ \A f \in frames : f.frame_ptr # last.self

\* PointsFrame::try_from failed at its last query, after seven queries
\* that succeeded, and the caller still has the handle
C28_Witness ==
    /\ last.op = "PointsFrame::try_from"
    /\ last.result = "CouldNotGetData"
    /\ last.nat.failAt = Len(PointsQueries)
    /\ \E rw \in raw : rw.frame_ptr = last.self
    /\ released[last.self] = 0

\* C29: when several tags of the allowlist answer yes, Sensor::extension
\* returns the one that comes first in SENSOR_EXTENSIONS order, and every
\* is-extendable-to query it issued is for a tag at or before that one, each
\* asked once and in allowlist order
C29_FirstMatchNoLaterQuery ==
    (last.op = "Sensor::extension" /\ Cardinality(Matching(last.nat)) >= 2) =>
        LET first == CHOOSE i \in Matching(last.nat) :
                        \A j \in Matching(last.nat) : i <= j
            queries == SelectSeq(last.trace,
                          LAMBDA e : e.call = "rs2_is_sensor_extendable_to")
        IN  /\ last.result = "Ok"
            /\ last.out = <<SENSOR_EXTENSIONS[first]>>
            /\ \A later \in (first + 1)..Len(SENSOR_EXTENSIONS) :
                  \A q \in 1..Len(queries) :
                      queries[q].arg # SENSOR_EXTENSIONS[later]
            /\ Len(queries) = first
            /\ \A q \in 1..Len(queries) : queries[q].arg = SENSOR_EXTENSIONS[q]

\* every tag of the allowlist answered yes: the first one was returned after
\* a single query
C29_Witness ==
    /\ last.op = "Sensor::extension"
    /\ \A i \in 1..Len(SENSOR_EXTENSIONS) : last.nat[i] = "yes"
    /\ Len(SENSOR_EXTENSIONS) >= 2
    /\ last.out = <<SENSOR_EXTENSIONS[1]>>
    /\ Len(last.trace) = 1

\* the byte offsets that element i of a view of 16-bit elements occupies
ElementBytes(i) == {2 * i, 2 * i + 1}

\* C30: the pixel view that the legacy DepthFrame construction builds covers
\* exactly the native buffer: its length in 16-bit elements times 2 is the
\* data size in bytes that the native library reported, and every element
\* of the view lies inside the bytes 0..size-1 of the native buffer
C30_ViewCoversBuffer ==
    (last.op = "legacy DepthFrame::try_from" /\ last.result = "Ok") =>
        /\ last.out.data_len * 2 = last.nat.size
        /\ \A i \in 0..(last.out.data_len - 1) :
              ElementBytes(i) \subseteq 0..(last.nat.size - 1)

====
